---- MODULE Spec2Model ----
(***************************************************************************)
(* Model of ttyms: the synchronization core (the UI loop of run_app, its   *)
(* background preload tasks and the per-entity caches) and the OAuth2      *)
(* credential core (SecretStore, TokenLifecycle, device-code polling).     *)
(***************************************************************************)
EXTENDS Integers, Sequences, FiniteSets, TLC

VARIABLES
    app,        \* app::App, the fields of the Teams/Channels view
    srvRev,     \* the remote service: revision of the data it serves
    tasks,      \* spawned background tasks that have not yet got a response
    bg_rx,      \* BgResult messages sent by tasks, not yet received by the loop
    track,      \* whether the history fields of app are recorded (fixed by Init)
    visits,     \* the teams the selection was moved to, if Init has it recorded
    storage,    \* the SecretStore: the keyring entries and the file .tokens
    now,        \* the system clock, in seconds
    auth,       \* the credential client: phase, requests sent, last call
    poll,       \* poll_for_token: its place in the loop, requests and result
    call,       \* a call of a pure function: its arguments and its result
    pkce,       \* authenticate_browser: its place, listener and callback
    graph,      \* the GraphClient of the UI loop, and the tokens it has held
    bgtasks,    \* the tasks spawned with a clone of graph, by order of spawn
    boot,       \* main and the head of run_app: place, requests, screen
    pager       \* the message panes of App: messages, cursors, page requests

syncVars == <<app, srvRev, tasks, bg_rx, track, visits>>

runVars == <<graph, bgtasks, boot, pager>>

authVars == <<storage, now, auth, poll, call, pkce, runVars>>

vars == <<syncVars, authVars>>

\* ------------------------------------------------------------------ bounds

\* The remote data changes at most MaxRev times.
MaxRev == 1
\* At most MaxInFlight results wait in the channel; a task that would exceed
\* it delays its send.
MaxInFlight == 1

\* ------------------------------------------------------------ remote service

None == "None"

\* The teams the service lists, and the channels of each team: one team with
\* two channels, one with none.
TeamIds == <<"t1", "t2">>

ChannelIdsOf(t) == IF t = "t1" THEN <<"c1", "c2">> ELSE <<>>

\* list_channels(team) as answered at revision r: Vec<Channel>.
ServerChannels(t, r) ==
    [i \in 1..Len(ChannelIdsOf(t)) |-> [id |-> ChannelIdsOf(t)[i], rev |-> r]]

\* get_channel_messages(team, channel) as answered at revision r: Vec<Message>.
ServerMessages(c, r) == <<[chan |-> c, rev |-> r]>>

\* ------------------------------------------------------------------ App

Insert(map, k, v) == [x \in (DOMAIN map) \cup {k} |-> IF x = k THEN v ELSE map[x]]

EmptyMap == [x \in {} |-> <<>>]

AppNew ==
    [ view_mode |-> "Chats",
      teams_panel |-> "TeamList",
      teams |-> <<>>,
      selected_team |-> 0,
      channels |-> <<>>,
      selected_channel |-> 0,
      channel_messages |-> <<>>,
      channels_cache |-> EmptyMap,
      channel_message_cache |-> EmptyMap,
      \* history fields, read by no handler: whether the visible collection was
      \* put on screen by a foreground (inline) fetch; recorded when tr is set
      channels_fg |-> FALSE,
      channel_messages_fg |-> FALSE ]

selected_team_id(a) ==
    IF a.selected_team < Len(a.teams) THEN a.teams[a.selected_team + 1] ELSE None

selected_channel_id(a) ==
    IF a.selected_channel < Len(a.channels)
    THEN a.channels[a.selected_channel + 1].id ELSE None

Min(x, y) == IF x <= y THEN x ELSE y

select_next_team(a) ==
    IF a.teams # <<>>
    THEN [a EXCEPT !.selected_team = Min(a.selected_team + 1, Len(a.teams) - 1)]
    ELSE a

select_prev_team(a) ==
    [a EXCEPT !.selected_team = IF a.selected_team > 0 THEN a.selected_team - 1 ELSE 0]

select_next_channel(a) ==
    IF a.channels # <<>>
    THEN [a EXCEPT !.selected_channel = Min(a.selected_channel + 1, Len(a.channels) - 1)]
    ELSE a

select_prev_channel(a) ==
    [a EXCEPT !.selected_channel = IF a.selected_channel > 0 THEN a.selected_channel - 1 ELSE 0]

next_teams_panel(a) ==
    [a EXCEPT !.teams_panel =
        CASE a.teams_panel = "TeamList" -> "ChannelList"
          [] a.teams_panel = "ChannelList" -> "ChannelMessages"
          [] a.teams_panel = "ChannelMessages" -> "ChannelInput"
          [] OTHER -> "TeamList"]

prev_teams_panel(a) ==
    [a EXCEPT !.teams_panel =
        CASE a.teams_panel = "TeamList" -> "ChannelInput"
          [] a.teams_panel = "ChannelList" -> "TeamList"
          [] a.teams_panel = "ChannelMessages" -> "ChannelList"
          [] OTHER -> "ChannelMessages"]

show_cached_messages_for_selected_channel(a) ==
    LET ch_id == selected_channel_id(a) IN
    IF ch_id = None THEN a
    ELSE IF ch_id \in DOMAIN a.channel_message_cache
    THEN [a EXCEPT !.channel_messages = a.channel_message_cache[ch_id],
                   !.channel_messages_fg = FALSE]
    ELSE [a EXCEPT !.channel_messages = <<>>,
                   !.channel_messages_fg = FALSE]

show_cached_channels_for_selected_team(a) ==
    LET tid == selected_team_id(a) IN
    IF tid = None THEN a
    ELSE IF tid \in DOMAIN a.channels_cache
    THEN show_cached_messages_for_selected_channel(
            [a EXCEPT !.channels = a.channels_cache[tid],
                      !.channels_fg = FALSE,
                      !.selected_channel = 0])
    ELSE [a EXCEPT !.channels = <<>>,
                   !.channels_fg = FALSE,
                   !.channel_messages = <<>>,
                   !.channel_messages_fg = FALSE]

\* ------------------------------------------------- foreground (inline) loads

load_channel_messages_cached(a, rev, okM, tr) ==
    LET team_id == selected_team_id(a)
        channel_id == selected_channel_id(a)
    IN  IF team_id = None \/ channel_id = None \/ ~okM THEN a
        ELSE LET msgs == ServerMessages(channel_id, rev) IN
             [a EXCEPT !.channel_message_cache = Insert(@, channel_id, msgs),
                       !.channel_messages = msgs,
                       !.channel_messages_fg = tr]

\* spawn_channel_messages_preload without the skip of the selected channel.
spawn_channel_messages_preload_All(a) ==
    { [kind |-> "ChannelMessages", id |-> a.channels[i].id] :
        i \in 1..Len(a.channels) }

\* The tasks spawn_channel_messages_preload spawns: every channel of the
\* visible list but the selected one.
spawn_channel_messages_preload(a) ==
    { [kind |-> "ChannelMessages", id |-> a.channels[i].id] :
        i \in { j \in 1..Len(a.channels) : a.channels[j].id # selected_channel_id(a) } }

\* The tasks spawn_channels_preload spawns: one per team, the selected included.
spawn_channels_preload(a) ==
    { [kind |-> "Channels", id |-> a.teams[i]] : i \in 1..Len(a.teams) }

\* Returns the new App and the set of tasks spawned.
load_channels_with_preload(a, rev, okC, okM, tr) ==
    LET team_id == selected_team_id(a) IN
    IF team_id = None \/ ~okC THEN [app |-> a, spawned |-> {}]
    ELSE LET chs == ServerChannels(team_id, rev)
             a1 == [a EXCEPT !.channels_cache = Insert(@, team_id, chs),
                             !.channels = chs,
                             !.channels_fg = tr,
                             !.selected_channel = 0]
         IN  IF a1.channels # <<>>
             THEN LET a2 == load_channel_messages_cached(a1, rev, okM, tr) IN
                  [app |-> a2, spawned |-> spawn_channel_messages_preload(a2)]
             ELSE [app |-> a1, spawned |-> {}]

load_teams_with_preload(a, rev, okT, okC, okM, tr) ==
    IF ~okT THEN [app |-> a, spawned |-> {}]
    ELSE LET a1 == [a EXCEPT !.teams = TeamIds]
             r  == IF a1.teams # <<>>
                   THEN load_channels_with_preload(
                            [a1 EXCEPT !.selected_team = 0], rev, okC, okM, tr)
                   ELSE [app |-> a1, spawned |-> {}]
         IN  [app |-> r.app, spawned |-> r.spawned \cup spawn_channels_preload(r.app)]

\* The first MaxVisits moves of the team selection are recorded.
MaxVisits == 2

\* The moves of the team selection are not recorded.
NoVisits == <<"unrecorded">>

\* The team a move of the selection has led to, added to the record.
RecordVisit(v, team_id) ==
    IF v = NoVisits \/ Len(v) >= MaxVisits THEN v ELSE Append(v, team_id)

\* ------------------------------------------------- the drain of run_app

\* ApplyBgResult with the selection checks lost: every result is put on screen.
ApplyBgResult_Unchecked(a, m) ==
    IF m.kind = "Channels"
    THEN show_cached_messages_for_selected_channel(
            [a EXCEPT !.channels_cache = Insert(@, m.id, m.data),
                      !.channels = m.data, !.channels_fg = FALSE])
    ELSE [a EXCEPT !.channel_message_cache = Insert(@, m.id, m.data),
                   !.channel_messages = m.data, !.channel_messages_fg = FALSE]

\* One BgResult taken by try_recv at the top of the loop.
ApplyBgResult(a, m) ==
    IF m.kind = "Channels"
    THEN LET a1 == [a EXCEPT !.channels_cache = Insert(@, m.id, m.data)] IN
         IF selected_team_id(a1) = m.id
         THEN LET a2 == [a1 EXCEPT !.channels = m.data, !.channels_fg = FALSE] IN
              IF a2.selected_channel = 0
              THEN show_cached_messages_for_selected_channel(a2)
              ELSE a2
         ELSE a1
    ELSE LET a1 == [a EXCEPT !.channel_message_cache = Insert(@, m.id, m.data)] IN
         IF selected_channel_id(a1) = m.id /\ a1.view_mode = "Teams"
         THEN [a1 EXCEPT !.channel_messages = m.data, !.channel_messages_fg = FALSE]
         ELSE a1

\* ------------------------------------------------- auth.rs: TokenResponse

\* u64::MAX of the unsigned seconds, scaled down so that the overflow of an
\* addition is within reach of the values the model draws, and wide enough
\* for the lifetime load_token_keyring assumes.
U64_MAX == 4095

\* The seconds before its expiry from which a token counts as expired.
SafetyMargin == 60

\* What load_token_keyring assumes when the "meta" entry gives no number.
DefaultExpiresIn == 3600
DefaultObtainedAt == 0

\* The extra wait of poll_for_token after a slow_down answer.
SlowDownDelay == 5

\* u64::saturating_sub.
saturating_sub(a, b) == IF a >= b THEN a - b ELSE 0

\* The sum is_expired compares the clock with, before it is cut to the width.
expiry_sum(token) ==
    token.obtained_at + saturating_sub(token.expires_in, SafetyMargin)

\* is_expired with the margin taken off the sum by a plain subtraction.
is_expired_PlainSubtraction(token, n) ==
    n >= (token.obtained_at + token.expires_in - SafetyMargin) % (U64_MAX + 1)

\* TokenResponse::is_expired at clock n, the addition wrapping as it does in
\* a build without overflow checks.
is_expired(token, n) == n >= expiry_sum(token) % (U64_MAX + 1)

\* Whether the addition of is_expired overflows: a build with overflow checks
\* panics there.
is_expired_overflows(token) == expiry_sum(token) > U64_MAX

\* TokenResponse::with_timestamp at clock n.
with_timestamp(token, n) == [token EXCEPT !.obtained_at = n]

\* The body of a successful token response, number k of the token endpoint:
\* a TokenResponse as serde reads it (obtained_at defaults to 0).
TokenBody(k, has_rt, e) ==
    [access_token  |-> "at" \o ToString(k),
     refresh_token |-> IF has_rt THEN "rt" \o ToString(k) ELSE None,
     expires_in    |-> e,
     token_type    |-> "Bearer",
     obtained_at   |-> 0]

\* Result<..> and Option<..> values.
Ok(token) == [kind |-> "Ok", token |-> token]
Err(e) == [kind |-> "Err", error |-> e]
OkSome(token) == [kind |-> "Some", token |-> token]
OkNone == [kind |-> "None"]

\* --------------------------------------------------- auth.rs: SecretStore

\* A keyring entry without a password.
NoEntry == "NoEntry"

\* The SecretStore: the three keyring entries, the single entry of earlier
\* versions and the file .tokens.
EmptyStorage ==
    [at |-> NoEntry, rt |-> NoEntry, meta |-> <<>>, legacy |-> NoEntry,
     file |-> [kind |-> "absent"]]

\* A file that holds len zero bytes (vec![0u8; len]).
ZeroBytes(len) == [kind |-> "zeros", len |-> len]

\* serde_json::to_string(token): the fields in the order of the struct, the
\* optional one as null (<<>>) or a string.
to_json(token) ==
    <<token.access_token,
      IF token.refresh_token = None THEN <<>> ELSE <<token.refresh_token>>,
      token.expires_in, token.token_type, token.obtained_at>>

\* serde_json::from_str::<TokenResponse>: Err unless the text is an object
\* with the fields of the struct.
from_json(json) ==
    IF Len(json) = 5
    THEN Ok([access_token  |-> json[1],
             refresh_token |-> IF json[2] = <<>> THEN None ELSE json[2][1],
             expires_in    |-> json[3],
             token_type    |-> json[4],
             obtained_at   |-> json[5]])
    ELSE Err("parse")

\* A file .tokens that does not hold a token (truncated, overwritten).
GarbageFile == [kind |-> "file", json |-> <<>>]

\* store_token_keyring; kfail names the step that fails: creating the
\* entries, or the write of "at", "rt" or "meta" ("none": all succeed).
\* A failed write leaves the entry as it was; the writes before it stay.
store_token_keyring(st, token, kfail) ==
    IF kfail \in {"entry", "at"} THEN [ok |-> FALSE, st |-> st]
    ELSE LET s1 == [st EXCEPT !.at = token.access_token] IN
         IF kfail = "rt" THEN [ok |-> FALSE, st |-> s1]
         ELSE LET s2 == [s1 EXCEPT !.rt = IF token.refresh_token = None
                                          THEN "" ELSE token.refresh_token] IN
              IF kfail = "meta" THEN [ok |-> FALSE, st |-> s2]
              ELSE [ok |-> TRUE,
                    st |-> [s2 EXCEPT !.meta = <<token.expires_in,
                                                 token.obtained_at>>]]

\* store_token_file that reports success when the write failed.
store_token_file_SwallowsError(st, token, fwrite) ==
    IF fwrite = "ok"
    THEN [ok |-> TRUE,
          st |-> [st EXCEPT !.file = [kind |-> "file", json |-> to_json(token)]]]
    ELSE [ok |-> TRUE, st |-> st]

\* store_token_file; fwrite is "ok", "no_config_dir" (token_file_path fails)
\* or "io_error" (fs::write fails).
store_token_file(st, token, fwrite) ==
    IF fwrite = "ok"
    THEN [ok |-> TRUE,
          st |-> [st EXCEPT !.file = [kind |-> "file", json |-> to_json(token)]]]
    ELSE [ok |-> FALSE, st |-> st]

\* store_token: the keyring first, the file when the keyring did not take it.
store_token(st, token, wenv) ==
    LET k == store_token_keyring(st, token, wenv.kfail) IN
    IF k.ok THEN k ELSE store_token_file(k.st, token, wenv.fwrite)

\* str::parse::<u64> of one field of the "meta" entry: a field is the number
\* it was written from, or a text that is no u64 (shown as a negative value,
\* which no u64 is written as).
parses_u64(field) == field \in 0..U64_MAX

\* load_token_keyring that takes a credential without a usable lifetime for
\* one that does not expire.
load_token_keyring_NeverExpires(st, unreadable) ==
    IF "at" \in unreadable \/ st.at \in {NoEntry, ""} THEN OkNone
    ELSE LET meta == IF "meta" \in unreadable THEN <<>> ELSE st.meta IN
         OkSome([access_token  |-> st.at,
                 refresh_token |-> IF "rt" \in unreadable \/ st.rt \in {NoEntry, ""}
                                   THEN None ELSE st.rt,
                 expires_in    |-> IF Len(meta) >= 1 /\ parses_u64(meta[1])
                                   THEN meta[1] ELSE U64_MAX,
                 token_type    |-> "Bearer",
                 obtained_at   |-> IF Len(meta) >= 2 /\ parses_u64(meta[2])
                                   THEN meta[2] ELSE DefaultObtainedAt])

\* load_token_keyring; unreadable holds the entries whose get_password fails.
\* The "meta" entry is split at its commas (<<>> is the empty text, whose one
\* field is no number) and each of the first two fields is parsed on its own.
load_token_keyring(st, unreadable) ==
    IF "at" \in unreadable \/ st.at \in {NoEntry, ""} THEN OkNone
    ELSE LET meta == IF "meta" \in unreadable THEN <<>> ELSE st.meta IN
         OkSome([access_token  |-> st.at,
                 refresh_token |-> IF "rt" \in unreadable \/ st.rt \in {NoEntry, ""}
                                   THEN None ELSE st.rt,
                 expires_in    |-> IF Len(meta) >= 1 /\ parses_u64(meta[1])
                                   THEN meta[1] ELSE DefaultExpiresIn,
                 token_type    |-> "Bearer",
                 obtained_at   |-> IF Len(meta) >= 2 /\ parses_u64(meta[2])
                                   THEN meta[2] ELSE DefaultObtainedAt])

\* load_token_file; fread is "ok", "no_config_dir" (token_file_path fails) or
\* "io_error" (read_to_string fails on the existing file).
load_token_file(st, fread) ==
    IF fread = "no_config_dir" THEN Err("config_dir")
    ELSE IF st.file.kind = "absent" THEN OkNone
    ELSE IF fread = "io_error" THEN Err("read")
    ELSE LET result == IF st.file.kind = "zeros" THEN Err("parse")
                       ELSE from_json(st.file.json) IN
         IF result.kind = "Ok" THEN OkSome(result.token) ELSE OkNone

\* load_cached_token that asks the file first.
load_cached_token_FileFirst(st, renv) ==
    LET f == load_token_file(st, renv.fread) IN
    IF f.kind = "Some" THEN f ELSE load_token_keyring(st, renv.unreadable)

\* load_cached_token.
load_cached_token(st, renv) ==
    LET k == load_token_keyring(st, renv.unreadable) IN
    IF k.kind = "Some" THEN k ELSE load_token_file(st, renv.fread)

\* ------------------------------------------------ auth.rs: TokenLifecycle

\* No request was made.
NoResponse == [kind |-> "none"]

\* serde_json::from_str::<TokenResponse>(&body) of a response.
parse_token_response(resp) ==
    IF resp.kind = "token" THEN Ok(resp.token) ELSE Err("parse")

\* refresh_access_token: the status of the response is not looked at.
refresh_access_token(st, n, resp, wenv) ==
    IF resp.kind = "transport_error" THEN [result |-> Err("send"), st |-> st]
    ELSE LET parsed == parse_token_response(resp) IN
         IF parsed.kind = "Err" THEN [result |-> parsed, st |-> st]
         ELSE LET token == with_timestamp(parsed.token, n)
                  s == store_token(st, token, wenv) IN
              IF s.ok THEN [result |-> Ok(token), st |-> s.st]
              ELSE [result |-> Err("store"), st |-> s.st]

\* exchange_code_for_token: a response without a success status ends it
\* before the body is parsed.
exchange_code_for_token(st, n, resp, wenv) ==
    IF resp.kind = "transport_error" THEN [result |-> Err("send"), st |-> st]
    ELSE IF resp.kind \in {"error", "garbage"}
    THEN [result |-> Err("status"), st |-> st]
    ELSE LET parsed == parse_token_response(resp) IN
         IF parsed.kind = "Err" THEN [result |-> parsed, st |-> st]
         ELSE LET token == with_timestamp(parsed.token, n)
                  s == store_token(st, token, wenv) IN
              IF s.ok THEN [result |-> Ok(token), st |-> s.st]
              ELSE [result |-> Err("store"), st |-> s.st]

\* The error of poll_for_token for an OAuth error that is neither a wait nor
\* the expiry of the device code: "Authentication error: {name} - ..".
AuthenticationError(name) ==
    [kind |-> "Err", error |-> "authentication_error", name |-> name]

\* poll_for_token that goes on polling after an OAuth error it does not
\* know.
poll_for_token_step_RetriesUnknown(st, n, resp, wenv) ==
    IF resp.kind = "transport_error"
    THEN [next |-> "return", result |-> Err("send"), st |-> st]
    ELSE IF resp.kind = "token"
    THEN LET parsed == parse_token_response(resp) IN
         IF parsed.kind = "Err"
         THEN [next |-> "return", result |-> parsed, st |-> st]
         ELSE LET token == with_timestamp(parsed.token, n)
                  s == store_token(st, token, wenv) IN
              [next |-> "return", st |-> s.st,
               result |-> IF s.ok THEN Ok(token) ELSE Err("store")]
    ELSE IF resp.kind = "error"
    THEN IF resp.error = "authorization_pending"
         THEN [next |-> "continue", result |-> OkNone, st |-> st]
         ELSE IF resp.error = "slow_down"
         THEN [next |-> "slow_down", result |-> OkNone, st |-> st]
         ELSE IF resp.error = "expired_token"
         THEN [next |-> "return", result |-> Err("device_code_expired"),
               st |-> st]
         ELSE [next |-> "continue", result |-> OkNone, st |-> st]
    ELSE [next |-> "return", result |-> Err("unexpected"), st |-> st]

\* poll_for_token that goes on polling after a request that failed to be
\* sent.
poll_for_token_step_RetriesSend(st, n, resp, wenv) ==
    IF resp.kind = "transport_error"
    THEN [next |-> "continue", result |-> OkNone, st |-> st]
    ELSE IF resp.kind = "token"
    THEN LET parsed == parse_token_response(resp) IN
         IF parsed.kind = "Err"
         THEN [next |-> "return", result |-> parsed, st |-> st]
         ELSE LET token == with_timestamp(parsed.token, n)
                  s == store_token(st, token, wenv) IN
              [next |-> "return", st |-> s.st,
               result |-> IF s.ok THEN Ok(token) ELSE Err("store")]
    ELSE IF resp.kind = "error"
    THEN IF resp.error = "authorization_pending"
         THEN [next |-> "continue", result |-> OkNone, st |-> st]
         ELSE IF resp.error = "slow_down"
         THEN [next |-> "slow_down", result |-> OkNone, st |-> st]
         ELSE IF resp.error = "expired_token"
         THEN [next |-> "return", result |-> Err("device_code_expired"),
               st |-> st]
         ELSE [next |-> "return", result |-> AuthenticationError(resp.error),
               st |-> st]
    ELSE [next |-> "return", result |-> Err("unexpected"), st |-> st]

\* poll_for_token that gives up on a slow_down answer.
poll_for_token_step_StopsOnSlowDown(st, n, resp, wenv) ==
    IF resp.kind = "transport_error"
    THEN [next |-> "return", result |-> Err("send"), st |-> st]
    ELSE IF resp.kind = "token"
    THEN LET parsed == parse_token_response(resp) IN
         IF parsed.kind = "Err"
         THEN [next |-> "return", result |-> parsed, st |-> st]
         ELSE LET token == with_timestamp(parsed.token, n)
                  s == store_token(st, token, wenv) IN
              [next |-> "return", st |-> s.st,
               result |-> IF s.ok THEN Ok(token) ELSE Err("store")]
    ELSE IF resp.kind = "error"
    THEN IF resp.error = "authorization_pending"
         THEN [next |-> "continue", result |-> OkNone, st |-> st]
         ELSE IF resp.error = "expired_token"
         THEN [next |-> "return", result |-> Err("device_code_expired"),
               st |-> st]
         ELSE [next |-> "return", result |-> AuthenticationError(resp.error),
               st |-> st]
    ELSE [next |-> "return", result |-> Err("unexpected"), st |-> st]

\* One answer in the loop of poll_for_token: what the loop does next
\* ("continue", "slow_down", "return"), its result and the store.
poll_for_token_step(st, n, resp, wenv) ==
    IF resp.kind = "transport_error"
    THEN [next |-> "return", result |-> Err("send"), st |-> st]
    ELSE IF resp.kind = "token"
    THEN LET parsed == parse_token_response(resp) IN
         IF parsed.kind = "Err"
         THEN [next |-> "return", result |-> parsed, st |-> st]
         ELSE LET token == with_timestamp(parsed.token, n)
                  s == store_token(st, token, wenv) IN
              [next |-> "return", st |-> s.st,
               result |-> IF s.ok THEN Ok(token) ELSE Err("store")]
    ELSE IF resp.kind = "error"
    THEN IF resp.error = "authorization_pending"
         THEN [next |-> "continue", result |-> OkNone, st |-> st]
         ELSE IF resp.error = "slow_down"
         THEN [next |-> "slow_down", result |-> OkNone, st |-> st]
         ELSE IF resp.error = "expired_token"
         THEN [next |-> "return", result |-> Err("device_code_expired"),
               st |-> st]
         ELSE [next |-> "return", result |-> AuthenticationError(resp.error),
               st |-> st]
    ELSE [next |-> "return", result |-> Err("unexpected"), st |-> st]

\* get_valid_token that hands back the token it loaded when the refresh
\* fails.
get_valid_token_StaleOnFailure(st, n, renv, resp, wenv) ==
    LET loaded == load_cached_token(st, renv)
        quiet == [st |-> st, loaded |-> loaded, sent |-> <<>>,
                  flow |-> [kind |-> "NotCalled"]]
    IN
    IF loaded.kind = "Err" THEN [result |-> loaded] @@ quiet
    ELSE IF loaded.kind = "None" THEN [result |-> OkNone] @@ quiet
    ELSE IF ~is_expired(loaded.token, n) THEN [result |-> loaded] @@ quiet
    ELSE IF loaded.token.refresh_token # None
    THEN LET r == refresh_access_token(st, n, resp, wenv) IN
         [result |-> IF r.result.kind = "Ok" THEN OkSome(r.result.token)
                     ELSE loaded,
          st |-> r.st, loaded |-> loaded,
          sent |-> <<loaded.token.refresh_token>>, flow |-> r.result]
    ELSE [result |-> OkNone] @@ quiet

\* get_valid_token at clock n: its result, the store it leaves, the token
\* load_cached_token gave it, the refresh tokens it sent and what
\* refresh_access_token returned.
get_valid_token(st, n, renv, resp, wenv) ==
    LET loaded == load_cached_token(st, renv)
        quiet == [st |-> st, loaded |-> loaded, sent |-> <<>>,
                  flow |-> [kind |-> "NotCalled"]]
    IN
    IF loaded.kind = "Err" THEN [result |-> loaded] @@ quiet
    ELSE IF loaded.kind = "None" THEN [result |-> OkNone] @@ quiet
    ELSE IF ~is_expired(loaded.token, n) THEN [result |-> loaded] @@ quiet
    ELSE IF loaded.token.refresh_token # None
    THEN LET r == refresh_access_token(st, n, resp, wenv) IN
         [result |-> IF r.result.kind = "Ok" THEN OkSome(r.result.token)
                     ELSE OkNone,
          st |-> r.st, loaded |-> loaded,
          sent |-> <<loaded.token.refresh_token>>, flow |-> r.result]
    ELSE [result |-> OkNone] @@ quiet

\* ------------------------------------------------- credential client state

\* The client before it is launched: its phase, the requests it has sent to
\* the token endpoint, the refresh tokens a refresh request has failed with
\* (history), and the last call with what it returned.
AuthNew ==
    [phase |-> "stopped", requests |-> 0, refresh_failed |-> {},
     last |-> [op |-> "none"]]

\* poll_for_token before it is called: where it is in its loop, its
\* interval, the clock when it was called, the clock and the answer of each
\* request (history) and its result.
PollIdle ==
    [pc |-> "idle", interval |-> 0, started |-> 0, req_times |-> <<>>,
     responses |-> <<>>, result |-> [kind |-> "Running"]]

\* No call of a pure function is under way.
NoCall == [fn |-> "none"]

\* Option<String> of a query parameter.
NoValue == [kind |-> "None"]
SomeValue(v) == [kind |-> "Some", value |-> v]

NoListener == [state |-> "none", addr |-> "", port |-> 0]
NoStream == [state |-> "none"]

\* authenticate_browser has not been called.
PkceIdle ==
    [pc |-> "idle", code_verifier |-> None, code_challenge |-> None,
     listener |-> NoListener, redirect_uri |-> <<>>, handed |-> <<>>,
     started |-> 0, backlog |-> <<>>, accepted |-> 0, stream |-> NoStream,
     code |-> NoValue, token_requests |-> <<>>,
     result |-> [kind |-> "Running"]]

\* run_app has not built its GraphClient.
NoGraph == [access_token |-> None, history |-> <<>>]

\* main has not got past authenticate.
BootIdle ==
    [pc |-> "idle", token |-> None, requests |-> <<>>, fetched |-> {},
     screen |-> None, result |-> [kind |-> "Running"]]

\* The message panes of App::new: nothing displayed, no cursor stored, no
\* page requested.
PagerNew ==
    [messages |-> <<>>, known_message_ids |-> {}, scroll_offset |-> 0,
     channel_messages |-> <<>>, channel_scroll_offset |-> 0,
     messages_next_link |-> NoValue, channel_messages_next_link |-> NoValue,
     loading_more_messages |-> FALSE, status_message |-> "",
     requests |-> <<>>, loads |-> [chat |-> 0, channel |-> 0], keys |-> 0]

\* run_app is not under study: no client, no task, main at its start.
RunIdle ==
    /\ graph = NoGraph
    /\ bgtasks = <<>>
    /\ boot = BootIdle
    /\ pager = PagerNew
\* ------------------------------------------------------------------ actions

\* The credential client is not under study: its state is left as built.
AuthIdle ==
    /\ storage = EmptyStorage
    /\ now = 0
    /\ auth = AuthNew
    /\ poll = PollIdle
    /\ call = NoCall
    /\ pkce = PkceIdle
    /\ RunIdle

\* The UI loop is not under study: its state is left as built.
SyncIdle ==
    /\ app = AppNew
    /\ srvRev = 0
    /\ tasks = {}
    /\ bg_rx = {}
    /\ track = FALSE
    /\ visits = NoVisits

Init ==
    /\ app = AppNew
    /\ srvRev = 0
    /\ tasks = {}
    /\ bg_rx = {}
    /\ track = FALSE
    /\ visits = NoVisits
    /\ AuthIdle

\* The outcomes of the requests of one handler: a request is made only when
\* the one before it succeeded.
Outcomes2 == { <<FALSE, FALSE>>, <<TRUE, FALSE>>, <<TRUE, TRUE>> }

Outcomes3 == { <<FALSE, FALSE, FALSE>>, <<TRUE, FALSE, FALSE>>,
               <<TRUE, TRUE, FALSE>>, <<TRUE, TRUE, TRUE>> }

\* The remote data changes (someone posts, a channel is renamed).
ServerChange ==
    /\ srvRev < MaxRev
    /\ srvRev' = srvRev + 1
    /\ UNCHANGED <<app, tasks, bg_rx, track, visits, authVars>>

\* A background task gets its response and sends it through the channel.
BgTaskCompletes ==
    \E t \in tasks :
        /\ Cardinality(bg_rx) < MaxInFlight
        /\ tasks' = tasks \ {t}
        /\ bg_rx' = bg_rx \cup
              { [kind |-> t.kind, id |-> t.id,
                 data |-> IF t.kind = "Channels" THEN ServerChannels(t.id, srvRev)
                          ELSE ServerMessages(t.id, srvRev)] }
        /\ UNCHANGED <<app, srvRev, track, visits, authVars>>

\* A background task's request fails: it sends nothing.
BgTaskFails ==
    \E t \in tasks :
        /\ tasks' = tasks \ {t}
        /\ UNCHANGED <<app, srvRev, bg_rx, track, visits, authVars>>

\* run_app, top of the loop: bg_rx.try_recv() yields a result.
DrainBgResult ==
    \E m \in bg_rx :
        /\ bg_rx' = bg_rx \ {m}
        /\ app' = ApplyBgResult(app, m)
        /\ UNCHANGED <<srvRev, tasks, track, visits, authVars>>

\* The guard of the global keys. The panel focus of the Chats view is outside
\* this model: Tab moves it off the input panel without touching any field
\* modelled here.
GlobalKeysEnabled == app.teams_panel # "ChannelInput"

\* Key '1'
KeySwitchToChats ==
    /\ GlobalKeysEnabled
    /\ app' = [app EXCEPT !.view_mode = "Chats"]
    /\ UNCHANGED <<srvRev, tasks, bg_rx, track, visits, authVars>>

\* Key '2'
KeySwitchToTeams ==
    /\ GlobalKeysEnabled
    /\ \/ /\ app.teams = <<>>
          /\ \E o \in Outcomes3 :
               LET r == load_teams_with_preload(app, srvRev, o[1], o[2], o[3], track)
               IN  /\ app' = [r.app EXCEPT !.view_mode = "Teams"]
                   /\ tasks' = tasks \cup r.spawned
       \/ /\ app.teams # <<>>
          /\ app' = [app EXCEPT !.view_mode = "Teams"]
          /\ UNCHANGED tasks
    /\ UNCHANGED <<srvRev, bg_rx, track, visits, authVars>>

InTeamsPanel(p) == app.view_mode = "Teams" /\ app.teams_panel = p

\* Tab / BackTab in the Teams view
KeyTeamsTab ==
    /\ app.view_mode = "Teams"
    /\ \/ app' = next_teams_panel(app)
       \/ app' = prev_teams_panel(app)
    /\ UNCHANGED <<srvRev, tasks, bg_rx, track, visits, authVars>>

\* KeyTeamUpDown that fetches the channels of the new team as Enter does.
KeyTeamUpDown_Reloads ==
    /\ InTeamsPanel("TeamList")
    /\ \E o \in Outcomes2 :
        \E moved \in {show_cached_channels_for_selected_team(select_prev_team(app)),
                      show_cached_channels_for_selected_team(select_next_team(app))} :
         LET r == load_channels_with_preload(moved, srvRev, o[1], o[2], track)
         IN  /\ app' = r.app
             /\ tasks' = tasks \cup r.spawned
    /\ visits' = RecordVisit(visits, selected_team_id(app'))
    /\ UNCHANGED <<srvRev, bg_rx, track, authVars>>

\* TeamList: Up/k and Down/j
KeyTeamUpDown ==
    /\ InTeamsPanel("TeamList")
    /\ \/ app' = show_cached_channels_for_selected_team(select_prev_team(app))
       \/ app' = show_cached_channels_for_selected_team(select_next_team(app))
    /\ visits' = RecordVisit(visits, selected_team_id(app'))
    /\ UNCHANGED <<srvRev, tasks, bg_rx, track, authVars>>

\* TeamList: Enter
KeyTeamEnter ==
    /\ InTeamsPanel("TeamList")
    /\ \E o \in Outcomes2 :
         LET r == load_channels_with_preload(
                      show_cached_channels_for_selected_team(app),
                      srvRev, o[1], o[2], track)
         IN  /\ app' = IF r.app.channels # <<>>
                       THEN [r.app EXCEPT !.teams_panel = "ChannelList"]
                       ELSE r.app
             /\ tasks' = tasks \cup r.spawned
    /\ UNCHANGED <<srvRev, bg_rx, track, visits, authVars>>

\* TeamList: 'r'
KeyTeamRefresh ==
    /\ InTeamsPanel("TeamList")
    /\ \E o \in Outcomes3 :
         LET r == load_teams_with_preload(app, srvRev, o[1], o[2], o[3], track)
         IN  /\ app' = r.app
             /\ tasks' = tasks \cup r.spawned
    /\ UNCHANGED <<srvRev, bg_rx, track, visits, authVars>>

\* ChannelList: Up/k and Down/j
KeyChannelUpDown ==
    /\ InTeamsPanel("ChannelList")
    /\ \/ app' = show_cached_messages_for_selected_channel(select_prev_channel(app))
       \/ app' = show_cached_messages_for_selected_channel(select_next_channel(app))
    /\ UNCHANGED <<srvRev, tasks, bg_rx, track, visits, authVars>>

\* ChannelList: Enter
KeyChannelEnter ==
    /\ InTeamsPanel("ChannelList")
    /\ \E okM \in BOOLEAN :
         app' = [load_channel_messages_cached(
                     show_cached_messages_for_selected_channel(app), srvRev, okM, track)
                 EXCEPT !.teams_panel = "ChannelMessages"]
    /\ UNCHANGED <<srvRev, tasks, bg_rx, track, visits, authVars>>

\* ChannelList: Esc
KeyChannelEsc ==
    /\ InTeamsPanel("ChannelList")
    /\ app' = [app EXCEPT !.teams_panel = "TeamList"]
    /\ UNCHANGED <<srvRev, tasks, bg_rx, track, visits, authVars>>

\* ChannelMessages: 'r' with no message selected
KeyMessagesRefresh ==
    /\ InTeamsPanel("ChannelMessages")
    /\ \E okM \in BOOLEAN :
         app' = load_channel_messages_cached(app, srvRev, okM, track)
    /\ UNCHANGED <<srvRev, tasks, bg_rx, track, visits, authVars>>

\* ChannelMessages: Enter, and Esc with no message selected
KeyMessagesEnterEsc ==
    /\ InTeamsPanel("ChannelMessages")
    /\ \/ app' = [app EXCEPT !.teams_panel = "ChannelInput"]
       \/ app' = [app EXCEPT !.teams_panel = "ChannelList"]
    /\ UNCHANGED <<srvRev, tasks, bg_rx, track, visits, authVars>>

\* ChannelInput: Esc
KeyInputEsc ==
    /\ InTeamsPanel("ChannelInput")
    /\ app' = [app EXCEPT !.teams_panel = "ChannelMessages"]
    /\ UNCHANGED <<srvRev, tasks, bg_rx, track, visits, authVars>>

\* ChannelInput: Enter with a non-empty input, neither editing nor replying:
\* send_channel_message. A message that was sent changes the remote data.
KeyInputSend ==
    /\ InTeamsPanel("ChannelInput")
    /\ selected_team_id(app) # None /\ selected_channel_id(app) # None
    /\ srvRev < MaxRev
    /\ srvRev' = srvRev + 1
    /\ \E okM \in BOOLEAN :
          app' = load_channel_messages_cached(app, srvRev', okM, track)
    /\ UNCHANGED <<tasks, bg_rx, track, visits, authVars>>

\* run_app, bottom of the loop, should_refresh() holds: the Teams branch
\* (the Chats branch touches no field modelled here).
AutoRefresh ==
    /\ app.view_mode = "Teams"
    /\ selected_team_id(app) # None /\ selected_channel_id(app) # None
    /\ LET msgs == ServerMessages(selected_channel_id(app), srvRev) IN
       app' = [app EXCEPT !.channel_messages = msgs,
                          !.channel_messages_fg = track,
                          !.channel_message_cache =
                              Insert(@, selected_channel_id(app), msgs)]
    /\ UNCHANGED <<srvRev, tasks, bg_rx, track, visits, authVars>>

Next ==
    \/ ServerChange
    \/ BgTaskCompletes
    \/ BgTaskFails
    \/ DrainBgResult
    \/ KeySwitchToChats
    \/ KeySwitchToTeams
    \/ KeyTeamsTab
    \/ KeyTeamUpDown
    \/ KeyTeamEnter
    \/ KeyTeamRefresh
    \/ KeyChannelUpDown
    \/ KeyChannelEnter
    \/ KeyChannelEsc
    \/ KeyMessagesRefresh
    \/ KeyMessagesEnterEsc
    \/ KeyInputEsc
    \/ KeyInputSend
    \/ AutoRefresh

Spec == Init /\ [][Next]_vars

\* The same program with the history fields recorded.
InitTracked ==
    /\ app = AppNew
    /\ srvRev = 0
    /\ tasks = {}
    /\ bg_rx = {}
    /\ track = TRUE
    /\ visits = NoVisits
    /\ AuthIdle

SpecTracked == InitTracked /\ [][Next]_vars

\* ------------------------------------------------------ credential actions

\* The clock is looked at MaxTicks times after the launch, a safety margin
\* apart.
MaxTicks == 1
\* The token endpoint answers at most MaxRequests requests.
MaxRequests == 2
\* poll_for_token is followed for at most MaxPolls requests.
MaxPolls == 3

\* The lifetimes the token endpoint grants: shorter than the safety margin,
\* and longer.
ExpiresIns == {30, 120}

\* What the environment does to the reads of one load.
ReadEnvs ==
    [unreadable : {{}, {"rt"}, {"meta"}, {"at", "rt", "meta"}},
     fread : {"ok", "no_config_dir", "io_error"}]

\* What the environment does to the writes of one store.
WriteEnvs ==
    [kfail : {"none", "entry", "at", "rt", "meta"},
     fwrite : {"ok", "no_config_dir", "io_error"}]

QuietWrite == [kfail |-> "none", fwrite |-> "ok"]

\* The answers of the token endpoint to its request number k.
TokenResponses(k) ==
    { [kind |-> "token", token |-> TokenBody(k, h, e)] :
        h \in BOOLEAN, e \in ExpiresIns }

ErrorResponses(errors) == { [kind |-> "error", error |-> e] : e \in errors }

Failures == { [kind |-> "transport_error"], [kind |-> "garbage"] }

\* The store when the client is launched: empty, with a file .tokens that
\* holds no token, or with the token an earlier session left in the keyring.
InitialStorages ==
    { EmptyStorage,
      [EmptyStorage EXCEPT !.file = GarbageFile],
      store_token_keyring(EmptyStorage, TokenBody(0, TRUE, 120), "none").st }

\* What a call of get_valid_token can return in the current state, for each
\* behaviour of the environment and of the token endpoint.
GetValidTokenOutcomes ==
    UNION {
        LET loaded == load_cached_token(storage, renv) IN
        IF /\ loaded.kind = "Some"
           /\ is_expired(loaded.token, now)
           /\ loaded.token.refresh_token # None
        THEN IF auth.requests < MaxRequests
             THEN { get_valid_token(storage, now, renv, resp, wenv) :
                      resp \in TokenResponses(auth.requests + 1)
                               \cup ErrorResponses({"invalid_grant"})
                               \cup Failures,
                      wenv \in WriteEnvs }
             ELSE {}
        ELSE { get_valid_token(storage, now, renv, NoResponse, QuietWrite) }
      : renv \in ReadEnvs }

\* The client after get_valid_token returned o to caller.
AfterGetValidToken(o, caller, phase) ==
    [phase |-> phase,
     requests |-> auth.requests + Len(o.sent),
     refresh_failed |->
        IF o.flow.kind = "Err" /\ o.flow.error \in {"send", "parse"}
        THEN auth.refresh_failed \cup {o.sent[1]}
        ELSE auth.refresh_failed,
     last |-> [op |-> "get_valid_token", caller |-> caller,
               loaded |-> o.loaded, sent |-> o.sent, flow |-> o.flow,
               result |-> o.result]]

\* The client after an authorization flow returned result.
AfterAuthorization(op, result) ==
    [phase |-> IF result.kind = "Ok" THEN "running" ELSE "stopped",
     requests |-> auth.requests + 1,
     refresh_failed |-> IF result.kind = "Ok" THEN {} ELSE auth.refresh_failed,
     last |-> [op |-> op, flow |-> result]]

\* The clock advances.
Tick ==
    /\ now < MaxTicks * SafetyMargin
    /\ now' = now + SafetyMargin
    /\ UNCHANGED <<storage, auth, poll, call, pkce, runVars, syncVars>>

\* main starts: authenticate calls get_valid_token; an error ends the
\* process, None leads to an authorization flow.
Launch ==
    /\ auth.phase = "stopped"
    /\ \E o \in GetValidTokenOutcomes :
        /\ storage' = o.st
        /\ auth' = AfterGetValidToken(o, "authenticate",
                        IF o.result.kind = "Some" THEN "running"
                        ELSE IF o.result.kind = "None" THEN "authorizing"
                        ELSE "stopped")
    /\ UNCHANGED <<now, poll, call, pkce, runVars, syncVars>>

\* authenticate with PKCE: authenticate_browser ends in
\* exchange_code_for_token.
AuthenticateBrowser ==
    /\ auth.phase = "authorizing"
    /\ auth.requests < MaxRequests
    /\ \E resp \in TokenResponses(auth.requests + 1)
                   \cup ErrorResponses({"invalid_grant"}) \cup Failures :
       \E wenv \in IF resp.kind = "token" THEN WriteEnvs ELSE {QuietWrite} :
        LET r == exchange_code_for_token(storage, now, resp, wenv) IN
        /\ storage' = r.st
        /\ auth' = AfterAuthorization("authenticate_browser", r.result)
    /\ UNCHANGED <<now, poll, call, pkce, runVars, syncVars>>

\* authenticate with the device code: the request of poll_for_token that
\* ends its loop.
AuthenticateDevice ==
    /\ auth.phase = "authorizing"
    /\ auth.requests < MaxRequests
    /\ \E resp \in TokenResponses(auth.requests + 1)
                   \cup ErrorResponses({"expired_token", "access_denied"})
                   \cup Failures :
       \E wenv \in IF resp.kind = "token" THEN WriteEnvs ELSE {QuietWrite} :
        LET r == poll_for_token_step(storage, now, resp, wenv) IN
        /\ storage' = r.st
        /\ auth' = AfterAuthorization("poll_for_token", r.result)
    /\ UNCHANGED <<now, poll, call, pkce, runVars, syncVars>>

\* A refresh cycle of run_app: get_valid_token is called and anything but
\* Ok(Some(..)) is passed over.
RefreshCycle ==
    /\ auth.phase = "running"
    /\ \E o \in GetValidTokenOutcomes :
        /\ storage' = o.st
        /\ auth' = AfterGetValidToken(o, "run_app", "running")
    /\ UNCHANGED <<now, poll, call, pkce, runVars, syncVars>>

\* The user quits: the process ends, with what its last call returned; it
\* can be launched again.
Quit ==
    /\ auth.phase = "running"
    /\ auth' = [auth EXCEPT !.phase = "stopped", !.last = [op |-> "none"]]
    /\ UNCHANGED <<storage, now, poll, call, pkce, runVars, syncVars>>

InitAuth ==
    /\ SyncIdle
    /\ storage \in InitialStorages
    /\ now = 0
    /\ auth = AuthNew
    /\ poll = PollIdle
    /\ call = NoCall
    /\ pkce = PkceIdle
    /\ RunIdle

NextAuth ==
    \/ Tick
    \/ Launch
    \/ AuthenticateBrowser
    \/ AuthenticateDevice
    \/ RefreshCycle
    \/ Quit

SpecAuth == InitAuth /\ [][NextAuth]_vars

\* ------------------------------------------------- device-code polling

\* The intervals the device-code response asks for.
Intervals == {2, 5}

\* authenticate: request_device_code gave the interval, poll_for_token is
\* called.
PollStart ==
    /\ poll.pc = "idle"
    /\ \E i \in Intervals :
        poll' = [PollIdle EXCEPT !.pc = "sleep", !.interval = i,
                                 !.started = now]
    /\ UNCHANGED <<storage, now, auth, call, pkce, runVars, syncVars>>

\* PollSleep that sleeps twice the interval.
PollSleep_Twice ==
    /\ poll.pc = "sleep"
    /\ now' = now + 2 * poll.interval
    /\ poll' = [poll EXCEPT !.pc = "request"]
    /\ UNCHANGED <<storage, auth, call, pkce, runVars, syncVars>>

\* The sleep at the head of the loop.
PollSleep ==
    /\ poll.pc = "sleep"
    /\ now' = now + poll.interval
    /\ poll' = [poll EXCEPT !.pc = "request"]
    /\ UNCHANGED <<storage, auth, call, pkce, runVars, syncVars>>

\* The request of one round of the loop and what the loop does with the
\* answer.
PollRequest ==
    /\ poll.pc = "request"
    /\ Len(poll.req_times) < MaxPolls
    /\ \E resp \in TokenResponses(Len(poll.req_times) + 1)
                   \cup ErrorResponses({"authorization_pending", "slow_down",
                                        "expired_token", "access_denied",
                                        "invalid_grant"})
                   \cup Failures :
       \E wenv \in IF resp.kind = "token" THEN WriteEnvs ELSE {QuietWrite} :
        LET r == poll_for_token_step(storage, now, resp, wenv) IN
        /\ storage' = r.st
        /\ poll' = [poll EXCEPT
                      !.req_times = Append(@, now),
                      !.responses = Append(@, resp),
                      !.pc = IF r.next = "continue" THEN "sleep"
                             ELSE IF r.next = "slow_down" THEN "slow_down"
                             ELSE "done",
                      !.result = IF r.next = "return" THEN r.result ELSE @]
    /\ UNCHANGED <<now, auth, call, pkce, runVars, syncVars>>

\* PollSlowDown that goes back to the head of the loop at once.
PollSlowDown_NoDelay ==
    /\ poll.pc = "slow_down"
    /\ poll' = [poll EXCEPT !.pc = "sleep"]
    /\ UNCHANGED <<storage, now, auth, call, pkce, runVars, syncVars>>

\* The extra sleep after a slow_down answer.
PollSlowDown ==
    /\ poll.pc = "slow_down"
    /\ now' = now + SlowDownDelay
    /\ poll' = [poll EXCEPT !.pc = "sleep"]
    /\ UNCHANGED <<storage, auth, call, pkce, runVars, syncVars>>

InitPoll ==
    /\ SyncIdle
    /\ storage \in InitialStorages
    /\ now = 0
    /\ auth = AuthNew
    /\ poll = PollIdle
    /\ call = NoCall
    /\ pkce = PkceIdle
    /\ RunIdle

NextPoll ==
    \/ PollStart
    \/ PollSleep
    \/ PollRequest
    \/ PollSlowDown

SpecPoll == InitPoll /\ [][NextPoll]_vars

\* The answers that are neither authorization_pending nor slow_down.
OtherAnswers ==
    ErrorResponses({"expired_token", "access_denied", "invalid_grant"})
    \cup Failures

\* The round of the loop in which the server gives up answering
\* authorization_pending and slow_down: the request after MaxPolls such
\* answers gets another answer.
PollLastRequest ==
    /\ poll.pc = "request"
    /\ Len(poll.req_times) = MaxPolls
    /\ \E resp \in TokenResponses(Len(poll.req_times) + 1) \cup OtherAnswers :
       \E wenv \in IF resp.kind = "token" THEN WriteEnvs ELSE {QuietWrite} :
        LET r == poll_for_token_step(storage, now, resp, wenv) IN
        /\ storage' = r.st
        /\ poll' = [poll EXCEPT
                      !.req_times = Append(@, now),
                      !.responses = Append(@, resp),
                      !.pc = IF r.next = "continue" THEN "sleep"
                             ELSE IF r.next = "slow_down" THEN "slow_down"
                             ELSE "done",
                      !.result = IF r.next = "return" THEN r.result ELSE @]
    /\ UNCHANGED <<now, auth, call, pkce, runVars, syncVars>>

NextPollFair ==
    \/ PollStart
    \/ PollSleep
    \/ PollRequest
    \/ PollSlowDown
    \/ PollLastRequest

\* poll_for_token runs in the task that awaits it: a sleep ends, a request
\* is answered or fails, and the loop takes its next step.
SpecPollFair ==
    /\ InitPoll
    /\ [][NextPollFair]_vars
    /\ WF_vars(PollSleep)
    /\ WF_vars(PollRequest)
    /\ WF_vars(PollSlowDown)
    /\ WF_vars(PollLastRequest)

\* ------------------------------------------------------------ is_expired

\* The values is_expired is called with: around the safety margin and
\* around the width of the seconds.
ExpiresInSamples == {0, 30, 59, 60, 61, 100, U64_MAX}

ObtainedAtSamples == {0, 1, 100, U64_MAX - 60, U64_MAX}

\* is_expired returns, or panics on the overflow in a build that checks it.
IsExpiredReturns ==
    /\ call.fn = "is_expired"
    /\ call.state = "called"
    /\ call' = [call EXCEPT
                  !.state = IF call.build = "debug"
                               /\ is_expired_overflows(call.token)
                            THEN "panicked" ELSE "returned",
                  !.ret = IF call.build = "debug"
                             /\ is_expired_overflows(call.token)
                          THEN @ ELSE is_expired(call.token, now)]
    /\ UNCHANGED <<storage, now, auth, poll, pkce, runVars, syncVars>>

InitExpiry ==
    /\ SyncIdle
    /\ storage = EmptyStorage
    /\ now \in 0..U64_MAX
    /\ auth = AuthNew
    /\ poll = PollIdle
    /\ pkce = PkceIdle
    /\ RunIdle
    /\ \E e \in ExpiresInSamples, o \in ObtainedAtSamples,
          b \in {"debug", "release"} :
        call = [fn |-> "is_expired", state |-> "called", build |-> b,
                token |-> with_timestamp(TokenBody(1, TRUE, e), o),
                ret |-> FALSE]

NextExpiry == IsExpiredReturns

SpecExpiry == InitExpiry /\ [][NextExpiry]_vars


\* ------------------------------------------------------- PKCE browser flow

\* The callback wait gives up after this many seconds.
CallbackTimeout == 300
\* At most MaxConnections clients connect to the callback listener.
MaxConnections == 2

\* The values generate_code_verifier may return (random).
generate_code_verifier == {"v1", "v2"}

\* compute_code_challenge: the encoded SHA-256 digest of the verifier, a
\* value that names the verifier it was computed from.
compute_code_challenge(verifier) == "base64url(sha256(" \o verifier \o "))"

\* The ports the system may assign to the listener bound to port 0.
EphemeralPorts == {50001, 50002}

\* The address authenticate_browser binds the listener to.
LoopbackAddr == "127.0.0.1"

\* format!("http://localhost:{}", port), as the sequence of its parts.
redirect_uri_of(port) ==
    <<"http", ":", "/", "/", "localhost", ":", ToString(port)>>

\* str::bytes of one element of a text: the UTF-8 bytes of a character that
\* percent_encode escapes; none for a character, or a run of characters,
\* among A-Z a-z 0-9 - _ . ~ ("U+233" is e with an acute accent, "U+8364"
\* the euro sign).
Utf8Bytes(c) ==
    CASE c = " " -> <<32>> [] c = "%" -> <<37>> [] c = "&" -> <<38>>
      [] c = "+" -> <<43>> [] c = "/" -> <<47>> [] c = ":" -> <<58>>
      [] c = "=" -> <<61>> [] c = "?" -> <<63>>
      [] c = "U+233" -> <<195, 169>>
      [] c = "U+8364" -> <<226, 130, 172>>
      [] OTHER -> <<>>

\* A hex digit of format!("{:02X}").
HexDigit(n) ==
    CASE n = 0 -> "0" [] n = 1 -> "1" [] n = 2 -> "2" [] n = 3 -> "3"
      [] n = 4 -> "4" [] n = 5 -> "5" [] n = 6 -> "6" [] n = 7 -> "7"
      [] n = 8 -> "8" [] n = 9 -> "9" [] n = 10 -> "A" [] n = 11 -> "B"
      [] n = 12 -> "C" [] n = 13 -> "D" [] n = 14 -> "E" [] n = 15 -> "F"

RECURSIVE EscapeBytes(_)
\* format!("%{:02X}", byte) for each of the bytes.
EscapeBytes(bytes) ==
    IF bytes = <<>> THEN <<>>
    ELSE <<"%", HexDigit(Head(bytes) \div 16), HexDigit(Head(bytes) % 16)>>
             \o EscapeBytes(Tail(bytes))

RECURSIVE Flatten(_)
\* The texts of a sequence, one after the other.
Flatten(texts) ==
    IF texts = <<>> THEN <<>> ELSE Head(texts) \o Flatten(Tail(texts))

\* The arm of percent_encode for a character, + left as it is.
push_encoded_KeepsPlus(c) ==
    IF Utf8Bytes(c) = <<>> \/ c = "+" THEN <<c>>
    ELSE EscapeBytes(Utf8Bytes(c))

\* The body of the loop of percent_encode for the bytes of one character:
\* letters, digits and - _ . ~ are pushed, every other byte is pushed as %
\* and its two hex digits in upper case.
push_encoded(c) ==
    IF Utf8Bytes(c) = <<>> THEN <<c>> ELSE EscapeBytes(Utf8Bytes(c))

\* percent_encode on a text.
percent_encode(input) ==
    Flatten([i \in 1..Len(input) |-> push_encoded(input[i])])

\* The authorization URL, by its query parameters.
auth_url(code_challenge, redirect_uri) ==
    [response_type |-> "code",
     redirect_uri |-> percent_encode(redirect_uri),
     code_challenge |-> code_challenge,
     code_challenge_method |-> "S256"]

\* The value of a hex digit, -1 for any other character.
HexValue(c) ==
    CASE c = "0" -> 0 [] c = "1" -> 1 [] c = "2" -> 2 [] c = "3" -> 3
      [] c = "4" -> 4 [] c = "5" -> 5 [] c = "6" -> 6 [] c = "7" -> 7
      [] c = "8" -> 8 [] c = "9" -> 9
      [] c \in {"A", "a"} -> 10 [] c \in {"B", "b"} -> 11
      [] c \in {"C", "c"} -> 12 [] c \in {"D", "d"} -> 13
      [] c \in {"E", "e"} -> 14 [] c \in {"F", "f"} -> 15
      [] OTHER -> -1

\* u8::from_str_radix(hex, 16) for at most two characters: -1 for Err. A
\* leading + sign is accepted before the digits.
from_str_radix(hex) ==
    LET digits == IF Len(hex) > 0 /\ hex[1] = "+" THEN Tail(hex) ELSE hex IN
    IF Len(digits) = 0 \/ \E i \in 1..Len(digits) : HexValue(digits[i]) < 0
    THEN -1
    ELSE IF Len(digits) = 1 THEN HexValue(digits[1])
    ELSE 16 * HexValue(digits[1]) + HexValue(digits[2])

\* byte as char, for the bytes of the sample requests.
ByteAsChar(byte) ==
    CASE byte = 32 -> " " [] byte = 37 -> "%" [] byte = 38 -> "&"
      [] byte = 43 -> "+" [] byte = 47 -> "/" [] byte = 58 -> ":"
      [] byte = 61 -> "=" [] byte = 63 -> "?" [] byte = 65 -> "A"
      [] OTHER -> "U+" \o ToString(byte)

RECURSIVE simple_url_decode(_)
\* simple_url_decode on a sequence of characters: % takes the next two
\* characters as a hex byte (dropped if they are not one), + is a space.
simple_url_decode(input) ==
    IF input = <<>> THEN <<>>
    ELSE IF Head(input) = "%"
    THEN LET rest == Tail(input)
             k == IF Len(rest) < 2 THEN Len(rest) ELSE 2
             hex == SubSeq(rest, 1, k)
             after == SubSeq(rest, k + 1, Len(rest))
             byte == from_str_radix(hex) IN
         (IF byte >= 0 THEN <<ByteAsChar(byte)>> ELSE <<>>)
             \o simple_url_decode(after)
    ELSE IF Head(input) = "+" THEN <<" ">> \o simple_url_decode(Tail(input))
    ELSE <<Head(input)>> \o simple_url_decode(Tail(input))

RECURSIVE parse_params(_, _)
\* The loop of parse_auth_callback over the parameters of the query, each
\* <<key>> or <<key, value>>: a later parameter overwrites an earlier one.
parse_params(query, acc) ==
    IF query = <<>> THEN acc
    ELSE LET param == Head(query)
             value == IF Len(param) > 1
                      THEN SomeValue(simple_url_decode(param[2]))
                      ELSE NoValue
             next == IF param[1] \in {"code", "error", "error_description"}
                     THEN [acc EXCEPT ![param[1]] = value]
                     ELSE acc IN
         parse_params(Tail(query), next)

\* parse_auth_callback on the parameters of the query of the request line
\* (an empty sequence when the request has no query): the code if there is
\* one, else "Authentication denied" with the error, "unknown" if none.
parse_auth_callback(query) ==
    LET p == parse_params(query, [code |-> NoValue, error |-> NoValue,
                                  error_description |-> NoValue]) IN
    IF p.code.kind = "Some"
    THEN [kind |-> "Ok", code |-> p.code.value]
    ELSE [kind |-> "Err", error |-> "denied",
          name |-> IF p.error.kind = "Some" THEN p.error.value
                   ELSE <<"u", "n", "k", "n", "o", "w", "n">>,
          description |-> IF p.error_description.kind = "Some"
                          THEN p.error_description.value ELSE <<>>]

\* The page capture_auth_code answers with.
SuccessPage == "HTTP/1.1 200 OK: Authentication Successful"

\* The queries of the callbacks a client may send: a code, a code with an
\* escape, a denial, a denial followed by a code, a code then a bare code
\* parameter, a request with no query.
CallbackQueries ==
    { << <<"code", <<"c", "1">>>> >>,
      << <<"code", <<"a", "%", "2", "F", "b">>>>, <<"state", <<"s">>>> >>,
      << <<"error", <<"d", "e", "n", "i", "e", "d">>>>,
         <<"error_description", <<"n", "o", "+", "w", "a", "y">>>> >>,
      << <<"error", <<"d", "e", "n", "i", "e", "d">>>>,
         <<"code", <<"c", "1">>>> >>,
      << <<"code", <<"c", "1">>>>, <<"code">> >>,
      << >> }

\* What a client that connected does: it sends a request, or it resets the
\* connection so that the read fails.
ClientSends ==
    { [kind |-> "request", query |-> q] : q \in CallbackQueries }
        \cup { [kind |-> "reset"] }

\* capture_auth_code returns or fails: its listener and stream are dropped.
Dropped(p) ==
    [p EXCEPT !.listener.state = IF @ = "bound" THEN "closed" ELSE @,
              !.stream.state = IF @ = "open" THEN "closed" ELSE @]

\* authenticate_browser is called: the verifier and its challenge.
PkceGenerate ==
    /\ pkce.pc = "idle"
    /\ \E v \in generate_code_verifier :
        pkce' = [pkce EXCEPT !.pc = "bind", !.code_verifier = v,
                             !.code_challenge = compute_code_challenge(v)]
    /\ UNCHANGED <<storage, now, auth, poll, call, runVars, syncVars>>

\* The listener is bound to the loopback address and a port of the system's
\* choice, or the bind fails.
PkceBind ==
    /\ pkce.pc = "bind"
    /\ \/ pkce' = [pkce EXCEPT !.pc = "done", !.result = Err("bind")]
       \/ \E port \in EphemeralPorts :
            pkce' = [pkce EXCEPT
                       !.pc = "open",
                       !.listener = [state |-> "bound", addr |-> LoopbackAddr,
                                     port |-> port],
                       !.redirect_uri = redirect_uri_of(port)]
    /\ UNCHANGED <<storage, now, auth, poll, call, runVars, syncVars>>

\* The authorization URL is handed to the browser, or printed if the
\* browser cannot be opened; the wait for the callback starts.
PkceOpenUrl ==
    /\ pkce.pc = "open"
    /\ \E opened \in BOOLEAN :
        pkce' = [pkce EXCEPT
                   !.pc = "accept",
                   !.handed = <<[url |-> auth_url(pkce.code_challenge,
                                                  pkce.redirect_uri),
                                 to |-> IF opened THEN "browser"
                                        ELSE "terminal"]>>,
                   !.started = now]
    /\ UNCHANGED <<storage, now, auth, poll, call, runVars, syncVars>>

\* A client connects to the listener and waits in its queue.
PkceConnect ==
    /\ pkce.listener.state = "bound"
    /\ Len(pkce.backlog) + pkce.accepted < MaxConnections
    /\ \E c \in ClientSends :
        pkce' = [pkce EXCEPT !.backlog = Append(@, c)]
    /\ UNCHANGED <<storage, now, auth, poll, call, runVars, syncVars>>

\* Time passes during the wait.
PkceTick ==
    /\ pkce.pc = "accept"
    /\ now - pkce.started < CallbackTimeout
    /\ now' = now + CallbackTimeout \div 2
    /\ UNCHANGED <<storage, auth, poll, call, pkce, runVars, syncVars>>

\* The timeout of the wait: no connection has come in five minutes.
PkceTimeout ==
    /\ pkce.pc = "accept"
    /\ pkce.backlog = <<>>
    /\ now - pkce.started >= CallbackTimeout
    /\ pkce' = Dropped([pkce EXCEPT !.pc = "done",
                                    !.result = Err("timeout")])
    /\ UNCHANGED <<storage, now, auth, poll, call, runVars, syncVars>>

\* accept returns the first connection of the queue, or an error.
PkceAccept ==
    /\ pkce.pc = "accept"
    /\ pkce.backlog # <<>>
    /\ \/ pkce' = Dropped([pkce EXCEPT !.pc = "done",
                                       !.result = Err("accept")])
       \/ pkce' = [pkce EXCEPT
                     !.pc = "read",
                     !.accepted = @ + 1,
                     !.backlog = Tail(@),
                     !.stream = [state |-> "open", client |-> Head(pkce.backlog),
                                 read |-> FALSE, responses |-> <<>>]]
    /\ UNCHANGED <<storage, now, auth, poll, call, runVars, syncVars>>

\* The request of the accepted connection is read and parsed; a failed read
\* or a request without a code ends capture_auth_code there.
PkceRead ==
    /\ pkce.pc = "read"
    /\ IF pkce.stream.client.kind = "reset"
       THEN pkce' = Dropped([pkce EXCEPT !.pc = "done",
                                         !.result = Err("read")])
       ELSE LET parsed == parse_auth_callback(pkce.stream.client.query)
                read == [pkce EXCEPT !.stream.read = TRUE] IN
            IF parsed.kind = "Err"
            THEN pkce' = Dropped([read EXCEPT !.pc = "done",
                                              !.result = parsed])
            ELSE pkce' = [read EXCEPT !.pc = "respond",
                                      !.code = SomeValue(parsed.code)]
    /\ UNCHANGED <<storage, now, auth, poll, call, runVars, syncVars>>

\* PkceRespond that goes on to serve the next connection of the queue.
PkceRespond_ServesNext ==
    /\ pkce.pc = "respond"
    /\ \E written \in BOOLEAN :
        LET answered == [pkce EXCEPT
                           !.stream.responses =
                               Append(@, [page |-> SuccessPage,
                                          written |-> written])] IN
        IF pkce.backlog # <<>>
        THEN pkce' = [answered EXCEPT
                        !.accepted = @ + 1,
                        !.backlog = Tail(@),
                        !.stream.responses =
                            Append(@, [page |-> SuccessPage,
                                       written |-> written])]
        ELSE pkce' = Dropped([answered EXCEPT !.pc = "exchange"])
    /\ UNCHANGED <<storage, now, auth, poll, call, runVars, syncVars>>

\* The page is written to the connection (a failed write is passed over),
\* the connection is shut down and capture_auth_code returns the code.
PkceRespond ==
    /\ pkce.pc = "respond"
    /\ \E written \in BOOLEAN :
        pkce' = Dropped([pkce EXCEPT
                           !.pc = "exchange",
                           !.stream.responses =
                               Append(@, [page |-> SuccessPage,
                                          written |-> written])])
    /\ UNCHANGED <<storage, now, auth, poll, call, runVars, syncVars>>

\* PkceExchange that sends a verifier generated anew.
PkceExchange_FreshVerifier ==
    /\ pkce.pc = "exchange"
    /\ \E resp \in TokenResponses(1) \cup ErrorResponses({"invalid_grant"})
                   \cup Failures :
       \E wenv \in IF resp.kind = "token" THEN WriteEnvs ELSE {QuietWrite} :
       \E v \in generate_code_verifier :
        LET r == exchange_code_for_token(storage, now, resp, wenv) IN
        /\ storage' = r.st
        /\ pkce' = [pkce EXCEPT
                      !.pc = "done",
                      !.token_requests =
                          Append(@, [code |-> pkce.code.value,
                                     redirect_uri |-> pkce.redirect_uri,
                                     code_verifier |-> v]),
                      !.result = r.result]
    /\ UNCHANGED <<now, auth, poll, call, runVars, syncVars>>

\* exchange_code_for_token: the token request with the code, the redirect
\* URI and the verifier, and its answer.
PkceExchange ==
    /\ pkce.pc = "exchange"
    /\ \E resp \in TokenResponses(1) \cup ErrorResponses({"invalid_grant"})
                   \cup Failures :
       \E wenv \in IF resp.kind = "token" THEN WriteEnvs ELSE {QuietWrite} :
        LET r == exchange_code_for_token(storage, now, resp, wenv) IN
        /\ storage' = r.st
        /\ pkce' = [pkce EXCEPT
                      !.pc = "done",
                      !.token_requests =
                          Append(@, [code |-> pkce.code.value,
                                     redirect_uri |-> pkce.redirect_uri,
                                     code_verifier |-> pkce.code_verifier]),
                      !.result = r.result]
    /\ UNCHANGED <<now, auth, poll, call, runVars, syncVars>>

InitPkce ==
    /\ SyncIdle
    /\ storage = EmptyStorage
    /\ now = 0
    /\ auth = AuthNew
    /\ poll = PollIdle
    /\ call = NoCall
    /\ pkce = PkceIdle
    /\ RunIdle

NextPkce ==
    \/ PkceGenerate
    \/ PkceBind
    \/ PkceOpenUrl
    \/ PkceConnect
    \/ PkceTick
    \/ PkceTimeout
    \/ PkceAccept
    \/ PkceRead
    \/ PkceRespond
    \/ PkceExchange

SpecPkce == InitPkce /\ [][NextPkce]_vars

\* ------------------------------------------- navigation over the caches

\* The channel lists the cache may hold for a team: what list_channels
\* answered at some revision; the second team has two channels here.
CachedChannelLists(t) ==
    { [i \in 1..2 |-> [id |-> IF t = "t1" THEN ChannelIdsOf(t)[i]
                              ELSE <<"c3", "c4">>[i],
                       rev |-> r]] : r \in 0..MaxRev }

\* The contents of channels_cache: each team cached or not.
ChannelsCaches ==
    { c \in UNION { [S -> UNION { CachedChannelLists(t) : t \in S }] :
                    S \in SUBSET {"t1", "t2"} } :
        \A t \in DOMAIN c : c[t] \in CachedChannelLists(t) }

\* The contents of channel_message_cache: each channel cached or not.
MessageCaches ==
    UNION { { [c \in S |-> ServerMessages(c, 0)] } :
            S \in SUBSET {"c1", "c3", "c4"} }

\* The Teams view with the first team selected, its cached channels shown,
\* and the moves of the selection recorded.
InitNav ==
    /\ \E cc \in ChannelsCaches, mc \in MessageCaches :
        app = show_cached_channels_for_selected_team(
                  [AppNew EXCEPT !.view_mode = "Teams",
                                 !.teams = TeamIds,
                                 !.selected_team = 0,
                                 !.channels_cache = cc,
                                 !.channel_message_cache = mc])
    /\ srvRev = 0
    /\ tasks = {}
    /\ bg_rx = {}
    /\ track = FALSE
    /\ visits = <<>>
    /\ AuthIdle

NextNav ==
    \/ KeyTeamsTab
    \/ KeyTeamUpDown
    \/ KeyChannelUpDown

SpecNav == InitNav /\ [][NextNav]_vars

\* ------------------------------------------- GraphClient and its clones

\* At most MaxTasks background tasks are spawned.
MaxTasks == 2
\* The UI loop replaces its token at most MaxSetTokens times.
MaxSetTokens == 2

\* GraphClient::new: the client holds the token it is given.
GraphClient_new(access_token) ==
    [access_token |-> access_token, history |-> <<access_token>>]

\* clone_for_background: a client of its own with a copy of the token.
clone_for_background(g) == [access_token |-> g.access_token]

\* set_token: the token of this client is replaced (history: the tokens
\* it has held).
set_token(g, token) ==
    [g EXCEPT !.access_token = token, !.history = Append(@, token)]

\* The Authorization header GraphClient::get sends.
BearerOf(g) == g.access_token

\* A preload spawns a task for a team: the task owns a clone of the client
\* (born: how many tokens the UI client had held by then, history).
TokSpawn ==
    /\ Len(bgtasks) < MaxTasks
    /\ \E i \in 1..Len(TeamIds) :
        bgtasks' = Append(bgtasks,
                        [bg_graph |-> clone_for_background(graph),
                         team_id |-> TeamIds[i],
                         born |-> Len(graph.history),
                         pc |-> "request", bearer |-> None])
    /\ UNCHANGED <<graph, boot, pager, storage, now, auth, poll, call, pkce, syncVars>>

\* The refresh of run_app got a new token: set_token on the UI client.
TokSetToken ==
    /\ Len(graph.history) <= MaxSetTokens
    /\ graph' = set_token(graph, "at" \o ToString(Len(graph.history)))
    /\ UNCHANGED <<bgtasks, boot, pager, storage, now, auth, poll, call, pkce,
                   syncVars>>

\* TokTaskRequest that reads the token of the UI client when it sends.
TokTaskRequest_UiToken ==
    /\ \E i \in 1..Len(bgtasks), ok \in BOOLEAN :
        /\ bgtasks[i].pc = "request"
        /\ bgtasks' = [bgtasks EXCEPT
                         ![i].bearer = BearerOf(graph),
                         ![i].pc = IF ok THEN "send" ELSE "done"]
    /\ UNCHANGED <<graph, boot, pager, storage, now, auth, poll, call, pkce, syncVars>>

\* A task sends its request with the token of its own client; if the
\* request fails the task ends.
TokTaskRequest ==
    /\ \E i \in 1..Len(bgtasks), ok \in BOOLEAN :
        /\ bgtasks[i].pc = "request"
        /\ bgtasks' = [bgtasks EXCEPT
                         ![i].bearer = BearerOf(bgtasks[i].bg_graph),
                         ![i].pc = IF ok THEN "send" ELSE "done"]
    /\ UNCHANGED <<graph, boot, pager, storage, now, auth, poll, call, pkce, syncVars>>

\* A task sends its result through the channel and ends.
TokTaskSend ==
    /\ Cardinality(bg_rx) < MaxInFlight
    /\ \E i \in 1..Len(bgtasks) :
        /\ bgtasks[i].pc = "send"
        /\ bgtasks' = [bgtasks EXCEPT ![i].pc = "done"]
        /\ bg_rx' = bg_rx \cup
              { [kind |-> "Channels", id |-> bgtasks[i].team_id,
                 data |-> ServerChannels(bgtasks[i].team_id, srvRev)] }
    /\ UNCHANGED <<app, srvRev, tasks, track, visits>>
    /\ UNCHANGED <<graph, boot, pager, storage, now, auth, poll, call, pkce>>

\* run_app has built its client with the token of authenticate and loaded
\* the teams.
InitToken ==
    /\ app = [AppNew EXCEPT !.view_mode = "Teams", !.teams = TeamIds]
    /\ srvRev = 0
    /\ tasks = {}
    /\ bg_rx = {}
    /\ track = FALSE
    /\ visits = NoVisits
    /\ storage = EmptyStorage
    /\ now = 0
    /\ auth = AuthNew
    /\ poll = PollIdle
    /\ call = NoCall
    /\ pkce = PkceIdle
    /\ graph = GraphClient_new("at0")
    /\ bgtasks = <<>>
    /\ boot = BootIdle
    /\ pager = PagerNew

NextToken ==
    \/ TokSpawn
    \/ TokSetToken
    \/ TokTaskRequest
    \/ TokTaskSend
    \/ DrainBgResult

SpecToken == InitToken /\ [][NextToken]_vars

\* ------------------------------------------------ main and run_app start

\* The token authenticate has returned to main.
AuthenticatedToken ==
    IF auth.last.op = "get_valid_token" THEN auth.last.result.token
    ELSE auth.last.flow.token

\* main after authenticate returned a token: the terminal is set up, or
\* main ends with the error.
BootTerminal ==
    /\ auth.phase = "running"
    /\ boot.pc = "idle"
    /\ \E ok \in BOOLEAN :
        boot' = IF ok
                THEN [boot EXCEPT !.pc = "run_app",
                                  !.token = AuthenticatedToken.access_token]
                ELSE [boot EXCEPT !.pc = "exited",
                                  !.token = AuthenticatedToken.access_token,
                                  !.result = Err("terminal")]
    /\ UNCHANGED <<graph, bgtasks, pager, storage, now, auth, poll, call, pkce,
                   syncVars>>

\* run_app builds its GraphClient with the token and draws the Loading
\* screen; a failed draw ends it.
BootRunApp ==
    /\ boot.pc = "run_app"
    /\ graph' = GraphClient_new(boot.token)
    /\ \E drawn \in BOOLEAN :
        boot' = IF drawn
                THEN [boot EXCEPT !.pc = "get_me", !.screen = "Loading"]
                ELSE [boot EXCEPT !.pc = "exited", !.screen = "Loading",
                                  !.result = Err("draw")]
    /\ UNCHANGED <<bgtasks, pager, storage, now, auth, poll, call, pkce, syncVars>>

\* BootGetMe that goes on to the chat list when the profile fails.
BootGetMe_PassesOver ==
    /\ boot.pc = "get_me"
    /\ \E ok \in BOOLEAN :
        boot' = [boot EXCEPT
                   !.requests = Append(@, [api |-> "get_me",
                                           bearer |-> BearerOf(graph)]),
                   !.fetched = IF ok THEN @ \cup {"profile"} ELSE @,
                   !.pc = "list_chats"]
    /\ UNCHANGED <<graph, bgtasks, pager, storage, now, auth, poll, call, pkce,
                   syncVars>>

\* The profile is fetched; a failure shows the Error screen and run_app
\* returns.
BootGetMe ==
    /\ boot.pc = "get_me"
    /\ \E ok \in BOOLEAN :
        boot' = IF ok
                THEN [boot EXCEPT
                        !.requests = Append(@, [api |-> "get_me",
                                                bearer |-> BearerOf(graph)]),
                        !.fetched = @ \cup {"profile"},
                        !.pc = "list_chats"]
                ELSE [boot EXCEPT
                        !.requests = Append(@, [api |-> "get_me",
                                                bearer |-> BearerOf(graph)]),
                        !.screen = "Error",
                        !.pc = "exited",
                        !.result = [kind |-> "Ok"]]
    /\ UNCHANGED <<graph, bgtasks, pager, storage, now, auth, poll, call, pkce,
                   syncVars>>

\* The chat list is fetched and the Main screen entered; a failure shows
\* the Error screen and run_app returns.
BootListChats ==
    /\ boot.pc = "list_chats"
    /\ \E ok \in BOOLEAN :
        boot' = IF ok
                THEN [boot EXCEPT
                        !.requests = Append(@, [api |-> "list_chats",
                                                bearer |-> BearerOf(graph)]),
                        !.fetched = @ \cup {"chats"},
                        !.screen = "Main",
                        !.pc = "main"]
                ELSE [boot EXCEPT
                        !.requests = Append(@, [api |-> "list_chats",
                                                bearer |-> BearerOf(graph)]),
                        !.screen = "Error",
                        !.pc = "exited",
                        !.result = [kind |-> "Ok"]]
    /\ UNCHANGED <<graph, bgtasks, pager, storage, now, auth, poll, call, pkce,
                   syncVars>>

InitBoot == InitAuth

NextBoot ==
    \/ Tick
    \/ Launch
    \/ AuthenticateBrowser
    \/ AuthenticateDevice
    \/ BootTerminal
    \/ BootRunApp
    \/ BootGetMe
    \/ BootListChats

SpecBoot == InitBoot /\ [][NextBoot]_vars

\* --------------------------------------------- the messages of a chat

\* The displayed messages of a call hold at most MaxExisting messages.
MaxExisting == 2
\* A delta or an older page holds at most MaxDelta messages.
MaxDelta == 2

\* The ids of the messages of the samples, and their creation timestamps
\* (the rank of created_date_time in the order of its strings).
MessageIds == {"m1", "m2", "m3"}
Timestamps == 0..2

\* A Message: its id, created_date_time and the text of its body.
Message(id, created, content) ==
    [id |-> id, created_date_time |-> created, content |-> content]

\* The ids of a sequence of messages.
IdsOf(messages) == { messages[i].id : i \in 1..Len(messages) }

\* All sequences over S of length at most n.
SeqsUpTo(S, n) == UNION { [1..k -> S] : k \in 0..n }

\* The fields of App that the message functions read and write.
ChatNew ==
    [messages |-> <<>>, known_message_ids |-> {}, scroll_offset |-> 0,
     channel_messages |-> <<>>, channel_scroll_offset |-> 0]

RECURSIVE merge_each(_, _, _)
\* The loop of the merge over the incoming messages: a message whose id is
\* in the sequence replaces the one that has it, any other is appended and
\* sets has_new.
merge_each(messages, delta, has_new) ==
    IF delta = <<>> THEN [messages |-> messages, has_new |-> has_new]
    ELSE LET msg == Head(delta)
             found == { i \in 1..Len(messages) : messages[i].id = msg.id } IN
         IF found # {}
         THEN LET i == CHOOSE i \in found : \A j \in found : i <= j IN
              merge_each([messages EXCEPT ![i] = msg], Tail(delta), has_new)
         ELSE merge_each(Append(messages, msg), Tail(delta), TRUE)

RECURSIVE insert_by_created(_, _)
\* msg put into a sequence sorted by creation time, after the messages that
\* are not later than it.
insert_by_created(sorted, msg) ==
    IF sorted = <<>> THEN <<msg>>
    ELSE IF Head(sorted).created_date_time <= msg.created_date_time
    THEN <<Head(sorted)>> \o insert_by_created(Tail(sorted), msg)
    ELSE <<msg>> \o sorted

RECURSIVE sort_by_created(_)
\* The sequence sorted by creation time ascending; messages of one time keep
\* their order.
sort_by_created(messages) ==
    IF messages = <<>> THEN <<>>
    ELSE insert_by_created(
             sort_by_created(SubSeq(messages, 1, Len(messages) - 1)),
             messages[Len(messages)])

\* merge_delta_messages without the sort.
merge_delta_messages_Unsorted(a, delta) ==
    IF delta = <<>> THEN [app |-> a, ret |-> FALSE]
    ELSE LET m == merge_each(a.messages, delta, FALSE) IN
         [app |-> [a EXCEPT !.messages = m.messages,
                            !.known_message_ids = IdsOf(m.messages)],
          ret |-> m.has_new]

\* merge_delta_messages that takes every incoming message for a new one.
merge_delta_messages_AppendsAll(a, delta) ==
    IF delta = <<>> THEN [app |-> a, ret |-> FALSE]
    ELSE LET merged == sort_by_created(a.messages \o delta) IN
         [app |-> [a EXCEPT !.messages = merged,
                            !.known_message_ids = IdsOf(merged)],
          ret |-> TRUE]

\* merge_delta_messages without the early return on an empty delta.
merge_delta_messages_SortsEmpty(a, delta) ==
    LET m == merge_each(a.messages, delta, FALSE)
        merged == sort_by_created(m.messages) IN
    [app |-> [a EXCEPT !.messages = merged,
                       !.known_message_ids = IdsOf(merged)],
     ret |-> m.has_new]

\* App::merge_delta_messages: an empty delta changes nothing; otherwise the
\* incoming messages are merged, the sequence is sorted by creation time and
\* the known ids become the ids of the sequence.
merge_delta_messages(a, delta) ==
    IF delta = <<>> THEN [app |-> a, ret |-> FALSE]
    ELSE LET m == merge_each(a.messages, delta, FALSE)
             merged == sort_by_created(m.messages) IN
         [app |-> [a EXCEPT !.messages = merged,
                            !.known_message_ids = IdsOf(merged)],
          ret |-> m.has_new]

\* The sequences of messages a chat may display: distinct ids, in any order
\* of their timestamps, content as first written.
DisplayedSequences ==
    { s \in SeqsUpTo({ Message(id, t, "written") :
                         id \in MessageIds, t \in Timestamps }, MaxExisting) :
        \A i, j \in 1..Len(s) : s[i].id = s[j].id => i = j }

\* The deltas the service may answer with: new and changed messages in any
\* order, the same id more than once.
Deltas ==
    SeqsUpTo({ Message(id, t, "edited") :
                 id \in MessageIds, t \in Timestamps }, MaxDelta)

\* The known ids before a call: none, those of the displayed messages, or
\* those left by an earlier fetch.
KnownIdsBefore(messages) == { {}, IdsOf(messages), {"m1"} }

\* merge_delta_messages returns.
MergeDeltaReturns ==
    /\ call.fn = "merge_delta_messages"
    /\ call.state = "called"
    /\ LET r == merge_delta_messages(call.before, call.delta) IN
       call' = [call EXCEPT !.state = "returned", !.after = r.app,
                            !.ret = r.ret]
    /\ UNCHANGED <<storage, now, auth, poll, pkce, runVars, syncVars>>

\* A call of merge_delta_messages on messages s with known ids k.
MergeDeltaCall(s, k, d) ==
    [fn |-> "merge_delta_messages", state |-> "called",
     before |-> [ChatNew EXCEPT !.messages = s, !.known_message_ids = k],
     delta |-> d, after |-> ChatNew, ret |-> FALSE]

\* detect_new_messages that keeps the ids it knew.
detect_new_messages_KeepsKnown(a) ==
    LET new_ids == IdsOf(a.messages) IN
    IF a.known_message_ids = {}
    THEN [app |-> [a EXCEPT !.known_message_ids = new_ids], ret |-> FALSE]
    ELSE [app |-> [a EXCEPT !.known_message_ids = @ \cup new_ids],
          ret |-> \E id \in new_ids : id \notin a.known_message_ids]

\* App::detect_new_messages.
detect_new_messages(a) ==
    LET new_ids == IdsOf(a.messages) IN
    IF a.known_message_ids = {}
    THEN [app |-> [a EXCEPT !.known_message_ids = new_ids], ret |-> FALSE]
    ELSE [app |-> [a EXCEPT !.known_message_ids = new_ids],
          ret |-> \E id \in new_ids : id \notin a.known_message_ids]

\* detect_new_messages returns.
DetectNewReturns ==
    /\ call.fn = "detect_new_messages"
    /\ call.state = "called"
    /\ LET r == detect_new_messages(call.before) IN
       call' = [call EXCEPT !.state = "returned", !.after = r.app,
                            !.ret = r.ret]
    /\ UNCHANGED <<storage, now, auth, poll, pkce, runVars, syncVars>>

\* A call of detect_new_messages on messages s with known ids k.
DetectNewCall(s, k) ==
    [fn |-> "detect_new_messages", state |-> "called",
     before |-> [ChatNew EXCEPT !.messages = s, !.known_message_ids = k],
     delta |-> <<>>, after |-> ChatNew, ret |-> FALSE]

\* usize::saturating_add, usize as wide as U64_MAX.
saturating_add(a, b) == IF a + b > U64_MAX THEN U64_MAX ELSE a + b

\* prepend_older_messages that puts the older page after the displayed
\* messages.
prepend_older_messages_Appends(a, older) ==
    [a EXCEPT !.messages = @ \o older,
              !.scroll_offset = saturating_add(@, Len(older) * 2)]

\* App::prepend_older_messages.
prepend_older_messages(a, older) ==
    LET offset_increase == Len(older)
        combined == older \o a.messages IN
    [a EXCEPT !.messages = combined,
              !.scroll_offset = saturating_add(@, offset_increase * 2)]

\* App::prepend_older_channel_messages.
prepend_older_channel_messages(a, older) ==
    LET offset_increase == Len(older)
        combined == older \o a.channel_messages IN
    [a EXCEPT !.channel_messages = combined,
              !.channel_scroll_offset = saturating_add(@, offset_increase * 2)]

\* prepend_older_messages returns.
PrependOlderReturns ==
    /\ call.fn = "prepend_older_messages"
    /\ call.state = "called"
    /\ call' = [call EXCEPT !.state = "returned",
                            !.after = prepend_older_messages(call.before,
                                                             call.delta)]
    /\ UNCHANGED <<storage, now, auth, poll, pkce, runVars, syncVars>>

\* prepend_older_channel_messages returns.
PrependOlderChannelReturns ==
    /\ call.fn = "prepend_older_channel_messages"
    /\ call.state = "called"
    /\ call' = [call EXCEPT !.state = "returned",
                   !.after = prepend_older_channel_messages(call.before,
                                                            call.delta)]
    /\ UNCHANGED <<storage, now, auth, poll, pkce, runVars, syncVars>>

\* The pages and displayed messages of the prepend calls: messages of one
\* creation time, told apart by their ids.
Pages(ids, n) == SeqsUpTo({ Message(id, 0, "written") : id \in ids }, n)

\* The scroll offsets before a prepend: at the bottom, scrolled, and at the
\* top of the range of usize.
ScrollOffsets == {0, 5, U64_MAX - 1, U64_MAX}

\* A call of the prepend function f: page p, displayed messages s, offset o.
PrependOlderCall(f, s, p, o) ==
    [fn |-> f, state |-> "called",
     before |-> [ChatNew EXCEPT !.messages = s, !.scroll_offset = o,
                                !.channel_messages = s,
                                !.channel_scroll_offset = o],
     delta |-> p, after |-> ChatNew, ret |-> FALSE]

\* --- edit and reply state

\* The fields of App that start_edit reads and writes.
EditNew ==
    [messages |-> <<>>, selected_message |-> NoValue,
     current_user |-> NoValue, editing_message_id |-> NoValue,
     reply_to_message_id |-> NoValue, input |-> <<>>, input_cursor |-> 0,
     active_panel |-> "ChatList"]

\* App::current_user_id: the id of the signed-in user, "" before get_me.
current_user_id(a) ==
    IF a.current_user.kind = "Some" THEN a.current_user.value ELSE ""

\* Vec::get of the messages at an Option<usize>.
message_at(messages, selected) ==
    IF selected.kind = "Some" /\ selected.value < Len(messages)
    THEN SomeValue(messages[selected.value + 1]) ELSE NoValue

\* App::is_replying.
is_replying(a) ==
    a.reply_to_message_id.kind = "Some" /\ a.editing_message_id.kind = "None"

\* App::is_editing.
is_editing(a) == a.editing_message_id.kind = "Some"

\* start_edit without the test of the sender.
start_edit_AnySender(a) ==
    LET msg == message_at(a.messages, a.selected_message) IN
    IF msg.kind = "Some"
    THEN [a EXCEPT !.editing_message_id = SomeValue(msg.value.id),
                   !.input = msg.value.content,
                   !.input_cursor = Len(msg.value.content),
                   !.selected_message = NoValue,
                   !.active_panel = "Input"]
    ELSE a

\* App::start_edit.
start_edit(a) ==
    LET current_uid == current_user_id(a)
        msg == message_at(a.messages, a.selected_message) IN
    IF msg.kind = "Some" /\ msg.value.from = SomeValue(current_uid)
    THEN [a EXCEPT !.editing_message_id = SomeValue(msg.value.id),
                   !.input = msg.value.content,
                   !.input_cursor = Len(msg.value.content),
                   !.selected_message = NoValue,
                   !.active_panel = "Input"]
    ELSE a

\* The messages of the edit samples: of the user u1, of another user, of
\* the system (no sender), each with its text.
SenderSamples ==
    { [id |-> "m1", from |-> SomeValue("u1"), content |-> <<"m", "y">>],
      [id |-> "m2", from |-> SomeValue("u2"), content |-> <<"y", "o", "u">>],
      [id |-> "m3", from |-> NoValue, content |-> <<>>] }

\* start_edit returns.
StartEditReturns ==
    /\ call.fn = "start_edit"
    /\ call.state = "called"
    /\ call' = [call EXCEPT !.state = "returned",
                            !.after = start_edit(call.before)]
    /\ UNCHANGED <<storage, now, auth, poll, pkce, runVars, syncVars>>

\* A call of start_edit: any messages, any selection, signed in or not, a
\* reply or an edit under way or not.
StartEditCalls ==
    { [fn |-> "start_edit", state |-> "called",
       before |-> [EditNew EXCEPT !.messages = s, !.selected_message = sel,
                                  !.current_user = u,
                                  !.reply_to_message_id = r,
                                  !.editing_message_id = ed,
                                  !.active_panel = "Messages"],
       delta |-> <<>>, after |-> EditNew, ret |-> FALSE] :
        s \in SeqsUpTo(SenderSamples, MaxExisting),
        sel \in {NoValue} \cup { SomeValue(i) : i \in 0..MaxExisting },
        u \in {NoValue, SomeValue("u1")},
        r \in {NoValue, SomeValue("m2")},
        ed \in {NoValue, SomeValue("m1")} }

\* The message functions, called on sampled states of the App: a merge of
\* any delta into any displayed sequence, a detection with any known ids, a
\* prepend of any page at any offset.
InitChat ==
    /\ SyncIdle
    /\ storage = EmptyStorage /\ now = 0 /\ auth = AuthNew
    /\ poll = PollIdle /\ pkce = PkceIdle /\ RunIdle
    /\ \/ \E s \in DisplayedSequences, d \in Deltas :
            \E k \in KnownIdsBefore(s) : call = MergeDeltaCall(s, k, d)
       \/ \E s \in DisplayedSequences, k \in SUBSET MessageIds :
            call = DetectNewCall(s, k)
       \/ \E f \in {"prepend_older_messages",
                     "prepend_older_channel_messages"},
             s \in Pages({"m2", "m3"}, MaxExisting),
             p \in Pages({"m0", "m1"}, MaxDelta),
             o \in ScrollOffsets :
            call = PrependOlderCall(f, s, p, o)
       \/ call \in StartEditCalls

NextChat ==
    \/ MergeDeltaReturns
    \/ DetectNewReturns
    \/ PrependOlderReturns
    \/ PrependOlderChannelReturns
    \/ StartEditReturns

SpecChat == InitChat /\ [][NextChat]_vars

\* ------------------------------------------------- the pages of messages

\* The service keeps MaxPages pages behind the first page of a conversation.
MaxPages == 2
\* At most MaxKeys presses of Up are followed.
MaxKeys == 3
\* The first page of a pane is loaded at most MaxLoads times.
MaxLoads == 2

\* The cursors of the service: cursor k leads to the k-th page behind the
\* first.
Cursors == 1..MaxPages

\* The messages of the page a cursor leads to: the older, the further.
PageMessages(k) == <<Message("m" \o ToString(MaxPages - k), 0, "written")>>

\* The @odata.nextLink of the page a cursor leads to: the next cursor, none
\* on the last page.
PageNextLink(k) == IF k < MaxPages THEN SomeValue(k + 1) ELSE NoValue

\* GraphClient::get_messages and get_channel_messages: the first page, with
\* the cursor of the page behind it, or the failure of the request.
get_messages(ok) ==
    IF ok THEN [kind |-> "Ok",
                messages |-> <<Message("m" \o ToString(MaxPages), 0, "written")>>,
                next_link |-> SomeValue(1)]
    ELSE [kind |-> "Err"]

\* GraphClient::get_messages_page: the page of the cursor and the cursor
\* returned with it, or the failure of the request.
get_messages_page(next_link, ok) ==
    IF ok THEN [kind |-> "Ok", messages |-> PageMessages(next_link),
                next_link |-> PageNextLink(next_link)]
    ELSE [kind |-> "Err"]

\* The request of a page is written down: the pane, the cursor, the outcome
\* and how many times the first page of the pane had been loaded.
RecordRequest(a, pane, cursor, ok) ==
    [a EXCEPT !.requests = Append(@, [pane |-> pane, cursor |-> cursor,
                                      ok |-> ok, load |-> a.loads[pane]])]

\* load_older_messages that leaves the cursor it has followed.
load_older_messages_KeepsCursor(a, ok) ==
    IF a.messages_next_link.kind = "Some"
    THEN LET next_link == a.messages_next_link.value
             r == get_messages_page(next_link, ok)
             b == RecordRequest(a, "chat", next_link, ok) IN
         IF r.kind = "Ok" THEN prepend_older_messages(b, r.messages)
         ELSE [b EXCEPT !.status_message = "Load more"]
    ELSE a

\* load_older_messages: the stored cursor, if there is one, is requested;
\* the page is prepended and its cursor stored, a failure is reported.
load_older_messages(a, ok) ==
    IF a.messages_next_link.kind = "Some"
    THEN LET next_link == a.messages_next_link.value
             r == get_messages_page(next_link, ok)
             b == RecordRequest(a, "chat", next_link, ok) IN
         IF r.kind = "Ok"
         THEN prepend_older_messages(
                  [b EXCEPT !.messages_next_link = r.next_link], r.messages)
         ELSE [b EXCEPT !.status_message = "Load more"]
    ELSE a

\* load_older_channel_messages: the same on the pane of the channel.
load_older_channel_messages(a, ok) ==
    IF a.channel_messages_next_link.kind = "Some"
    THEN LET next_link == a.channel_messages_next_link.value
             r == get_messages_page(next_link, ok)
             b == RecordRequest(a, "channel", next_link, ok) IN
         IF r.kind = "Ok"
         THEN prepend_older_channel_messages(
                  [b EXCEPT !.channel_messages_next_link = r.next_link],
                  r.messages)
         ELSE [b EXCEPT !.status_message = "Load more"]
    ELSE a

\* Up or k in the Chats view with no message selected: the pane scrolls up
\* and, scrolled and with a cursor stored, loads the older page.
KeyChatsUp ==
    /\ pager.keys < MaxKeys
    /\ \E ok \in BOOLEAN :
         LET a == [pager EXCEPT !.keys = @ + 1,
                                !.scroll_offset = saturating_add(@, 3)] IN
         pager' = IF /\ a.scroll_offset > 0
                     /\ a.messages_next_link.kind = "Some"
                     /\ ~a.loading_more_messages
                  THEN load_older_messages(a, ok)
                  ELSE a
    /\ UNCHANGED <<graph, bgtasks, boot, storage, now, auth, poll, call, pkce,
                   syncVars>>

\* Up or k in the Teams view with no message selected.
KeyTeamsUp ==
    /\ pager.keys < MaxKeys
    /\ \E ok \in BOOLEAN :
         LET a == [pager EXCEPT !.keys = @ + 1,
                                !.channel_scroll_offset = saturating_add(@, 3)] IN
         pager' = IF /\ a.channel_scroll_offset > 0
                     /\ a.channel_messages_next_link.kind = "Some"
                     /\ ~a.loading_more_messages
                  THEN load_older_channel_messages(a, ok)
                  ELSE a
    /\ UNCHANGED <<graph, bgtasks, boot, storage, now, auth, poll, call, pkce,
                   syncVars>>

\* load_messages: the pane of the selected chat is loaded anew.
LoadMessages ==
    /\ pager.loads.chat < MaxLoads
    /\ \E ok \in BOOLEAN :
         LET a == [pager EXCEPT !.scroll_offset = 0]
             r == get_messages(ok) IN
         pager' = IF r.kind = "Ok"
                  THEN [detect_new_messages(
                            [a EXCEPT !.messages = r.messages,
                                      !.messages_next_link = r.next_link,
                                      !.loads.chat = @ + 1]).app
                          EXCEPT !.status_message = ""]
                  ELSE [a EXCEPT !.status_message = "Error"]
    /\ UNCHANGED <<graph, bgtasks, boot, storage, now, auth, poll, call, pkce,
                   syncVars>>

\* load_channel_messages_cached: the pane of the selected channel is loaded
\* anew.
LoadChannelMessages ==
    /\ pager.loads.channel < MaxLoads
    /\ \E ok \in BOOLEAN :
         LET a == [pager EXCEPT !.channel_scroll_offset = 0]
             r == get_messages(ok) IN
         pager' = IF r.kind = "Ok"
                  THEN [a EXCEPT !.channel_messages = r.messages,
                                 !.channel_messages_next_link = r.next_link,
                                 !.loads.channel = @ + 1,
                                 !.status_message = ""]
                  ELSE [a EXCEPT !.status_message = "Messages"]
    /\ UNCHANGED <<graph, bgtasks, boot, storage, now, auth, poll, call, pkce,
                   syncVars>>

\* The auto-refresh of the Chats view: the first page of the selected chat
\* replaces the displayed messages and its cursor the stored one.
RefreshMessages ==
    /\ pager.loads.chat < MaxLoads
    /\ pager.loads.chat > 0
    /\ LET r == get_messages(TRUE) IN
       pager' = detect_new_messages(
                    [pager EXCEPT !.messages = r.messages,
                                  !.messages_next_link = r.next_link,
                                  !.loads.chat = @ + 1]).app
    /\ UNCHANGED <<graph, bgtasks, boot, storage, now, auth, poll, call, pkce,
                   syncVars>>

\* The message panes from App::new on.
InitPage ==
    /\ SyncIdle
    /\ storage = EmptyStorage /\ now = 0 /\ auth = AuthNew
    /\ poll = PollIdle /\ call = NoCall /\ pkce = PkceIdle
    /\ RunIdle

NextPage ==
    \/ KeyChatsUp
    \/ KeyTeamsUp
    \/ LoadMessages
    \/ LoadChannelMessages
    \/ RefreshMessages

SpecPage == InitPage /\ [][NextPage]_vars

\* ------------------------------------------- the SecretStore: load, clear

\* The entries of the keyring that clear_stored_tokens knows.
KeyringKeys == <<"at", "rt", "meta", "legacy">>

\* Entry::delete_password of the entry key; a failed deletion leaves it.
delete_password(st, key, fails) ==
    IF fails THEN st
    ELSE IF key = "meta" THEN [st EXCEPT !.meta = <<>>]
    ELSE [st EXCEPT ![key] = NoEntry]

RECURSIVE clear_keyring(_, _, _)
\* The loops over the entries: each entry that can be created is deleted,
\* the outcome of the deletion is not looked at.
clear_keyring(r, keys, env) ==
    IF keys = <<>> THEN r
    ELSE LET key == Head(keys) IN
         IF env.entry_fails THEN clear_keyring(r, Tail(keys), env)
         ELSE clear_keyring(
                  [st |-> delete_password(r.st, key, key \in env.delete_fails),
                   steps |-> Append(r.steps, <<"delete_password", key>>)],
                  Tail(keys), env)

\* fs::metadata(path).len(): the length of the text of the file.
FileLen(file) == IF file.kind = "zeros" THEN file.len ELSE Len(file.json)

\* The file fallback of clear_stored_tokens: the file, if its path is known
\* and it exists, is written over with zeros of its length (of length 0 if
\* the length cannot be read) and removed; no outcome is looked at.
clear_file(r, env) ==
    IF env.no_config_dir \/ r.st.file.kind = "absent" THEN r
    ELSE LET len == IF env.metadata_fails THEN 0 ELSE FileLen(r.st.file)
             zeros == ZeroBytes(len)
             written == IF env.write_fails THEN r.st
                        ELSE [r.st EXCEPT !.file = zeros]
             removed == IF env.remove_fails THEN written
                        ELSE [written EXCEPT !.file = [kind |-> "absent"]] IN
         [st |-> removed,
          steps |-> r.steps \o <<<<"write", zeros>>, <<"remove_file">>>>]

\* clear_stored_tokens that gives up at the first deletion that fails.
clear_stored_tokens_StopsAtFailure(st, env) ==
    IF env.delete_fails # {} \/ env.write_fails
    THEN [result |-> Err("delete"), st |-> st, steps |-> <<>>]
    ELSE LET k == clear_keyring([st |-> st, steps |-> <<>>], KeyringKeys, env)
             f == clear_file(k, env) IN
         [result |-> [kind |-> "Ok"], st |-> f.st, steps |-> f.steps]

\* clear_stored_tokens: the keyring entries, the legacy entry, the file.
clear_stored_tokens(st, env) ==
    LET k == clear_keyring([st |-> st, steps |-> <<>>], KeyringKeys, env)
        f == clear_file(k, env) IN
    [result |-> [kind |-> "Ok"], st |-> f.st, steps |-> f.steps]

\* The stores a session may find: each keyring entry missing, empty or
\* written, and the file missing, without a token or with the token of an
\* earlier session; the two tiers hold different values.
StoreSamples ==
    { [at |-> a, rt |-> r, meta |-> m, legacy |-> l, file |-> f] :
        a \in {NoEntry, "", "at_keyring"},
        r \in {NoEntry, "", "rt_keyring"},
        m \in {<<>>, <<120, 7>>},
        l \in {NoEntry, "legacy_json"},
        f \in {[kind |-> "absent"], GarbageFile,
               [kind |-> "file",
                json |-> <<"at_file", <<"rt_file">>, 30, "Bearer", 3>>]} }

\* What the environment does to the reads of one load.
LoadEnvs ==
    [unreadable : {{}, {"at"}, {"rt"}, {"meta"}, {"at", "rt", "meta"}},
     fread : {"ok", "no_config_dir", "io_error"}]

\* What the environment does to the steps of one clear.
ClearEnvs ==
    [entry_fails : BOOLEAN, delete_fails : {{}, {"rt"}, {"at", "rt", "meta", "legacy"}},
     no_config_dir : BOOLEAN, metadata_fails : BOOLEAN,
     write_fails : BOOLEAN, remove_fails : BOOLEAN]

\* load_cached_token is called and returns.
LoadCachedToken ==
    /\ call.fn # "load_cached_token"
    /\ \E renv \in LoadEnvs :
         call' = [fn |-> "load_cached_token", renv |-> renv,
                  ret |-> load_cached_token(storage, renv),
                  after |-> call]
    /\ UNCHANGED <<storage, now, auth, poll, pkce, runVars, syncVars>>

\* --logout: clear_stored_tokens is called and returns.
ClearStoredTokens ==
    /\ call.fn = "none"
    /\ \E env \in ClearEnvs :
         LET r == clear_stored_tokens(storage, env) IN
         /\ storage' = r.st
         /\ call' = [fn |-> "clear_stored_tokens", env |-> env,
                     before |-> storage, steps |-> r.steps,
                     ret |-> r.result]
    /\ UNCHANGED <<now, auth, poll, pkce, runVars, syncVars>>

\* The store as a session may find it, before any call.
InitStore ==
    /\ SyncIdle
    /\ storage \in StoreSamples
    /\ now = 0 /\ auth = AuthNew /\ poll = PollIdle /\ call = NoCall
    /\ pkce = PkceIdle /\ RunIdle

NextStore ==
    \/ LoadCachedToken
    \/ ClearStoredTokens

SpecStore == InitStore /\ [][NextStore]_vars

\* --- a store and the load that follows it

\* store_token is called and returns (get_valid_token after a refresh,
\* authenticate after a sign-in).
StoreToken ==
    /\ call.fn \in {"none", "load_after_store"}
    /\ \E h \in BOOLEAN, e \in ExpiresIns, wenv \in WriteEnvs :
         LET token == TokenBody(1, h, e)
             r == store_token(storage, token, wenv) IN
         /\ storage' = r.st
         /\ call' = [fn |-> "store_token", token |-> token, wenv |-> wenv,
                     before |-> storage, ok |-> r.ok]
    /\ UNCHANGED <<now, auth, poll, pkce, runVars, syncVars>>

\* The next load_cached_token of the stored token: every read succeeds.
LoadAfterStore ==
    /\ call.fn = "store_token"
    /\ call' = [fn |-> "load_after_store", token |-> call.token,
                wenv |-> call.wenv, before |-> call.before, ok |-> call.ok,
                ret |-> load_cached_token(storage,
                            [unreadable |-> {}, fread |-> "ok"])]
    /\ UNCHANGED <<storage, now, auth, poll, pkce, runVars, syncVars>>

NextStoreLoad ==
    \/ StoreToken
    \/ LoadAfterStore

SpecStoreLoad == InitStore /\ [][NextStoreLoad]_vars

\* --- get_valid_token over a keyring whose "meta" entry is damaged

\* The "meta" entries: absent or empty, written by store_token_keyring, and
\* texts of which one field or both are no number (-1) or missing.
MetaSamples ==
    { <<>>, <<120, 7>>, <<-1>>, <<-1, -1>>, <<-1, 500>>, <<4000>>,
      <<120, -1>> }

\* The clock when get_valid_token is called: around the expiry that the
\* defaults of load_token_keyring give.
ClockSamples == {0, 3539, 3540, 4000}

VaultSamples ==
    { [at |-> "at_keyring", rt |-> r, meta |-> m, legacy |-> NoEntry,
       file |-> f] :
        r \in {NoEntry, "", "rt_keyring"},
        m \in MetaSamples,
        f \in {[kind |-> "absent"],
               [kind |-> "file",
                json |-> <<"at_file", <<"rt_file">>, 30, "Bearer", 3>>]} }

\* get_valid_token is called and returns.
GetValidTokenCalled ==
    /\ call.fn = "none"
    /\ \E renv \in [unreadable : {{}, {"rt"}, {"meta"}}, fread : {"ok"}],
          resp \in TokenResponses(1) \cup ErrorResponses({"invalid_grant"})
                   \cup Failures,
          wenv \in {QuietWrite, [kfail |-> "entry", fwrite |-> "io_error"]} :
         LET o == get_valid_token(storage, now, renv, resp, wenv) IN
         /\ storage' = o.st
         /\ call' = [fn |-> "get_valid_token", renv |-> renv,
                     before |-> storage, out |-> o]
    /\ UNCHANGED <<now, auth, poll, pkce, runVars, syncVars>>

InitVault ==
    /\ SyncIdle
    /\ storage \in VaultSamples
    /\ now \in ClockSamples
    /\ auth = AuthNew /\ poll = PollIdle /\ call = NoCall
    /\ pkce = PkceIdle /\ RunIdle

NextVault == GetValidTokenCalled

SpecVault == InitVault /\ [][NextVault]_vars

\* ------------------------------------------- the request of the callback

\* The query of a sample request holds at most MaxParams parameters.
MaxParams == 2

\* A text is a sequence of characters; a run of letters and digits that no
\* function splits or decodes stands as one element.
Whitespace == {" ", "\t", "\r", "\n"}

RECURSIVE split(_, _)
\* str::split(sep): the pieces between the separators, at least one.
split(text, sep) ==
    IF \A i \in 1..Len(text) : text[i] # sep THEN <<text>>
    ELSE LET i == CHOOSE i \in 1..Len(text) :
                      /\ text[i] = sep
                      /\ \A j \in 1..(i - 1) : text[j] # sep IN
         <<SubSeq(text, 1, i - 1)>> \o split(SubSeq(text, i + 1, Len(text)), sep)

\* str::splitn(2, sep): the text before the first separator and, if there is
\* one, the text after it.
splitn2(text, sep) ==
    IF \A i \in 1..Len(text) : text[i] # sep THEN <<text>>
    ELSE LET i == CHOOSE i \in 1..Len(text) :
                      /\ text[i] = sep
                      /\ \A j \in 1..(i - 1) : text[j] # sep IN
         <<SubSeq(text, 1, i - 1), SubSeq(text, i + 1, Len(text))>>

\* str::lines().next(): the text before the first line feed, without the
\* carriage return that ends it; None for an empty text.
first_line(request) ==
    IF request = <<>> THEN NoValue
    ELSE LET line == split(request, "\n")[1] IN
         SomeValue(IF line # <<>> /\ line[Len(line)] = "\r"
                   THEN SubSeq(line, 1, Len(line) - 1) ELSE line)

RECURSIVE split_whitespace(_)
\* str::split_whitespace: the runs of characters that are not whitespace.
split_whitespace(text) ==
    IF text = <<>> THEN <<>>
    ELSE IF Head(text) \in Whitespace THEN split_whitespace(Tail(text))
    ELSE LET ends == { i \in 1..Len(text) : text[i] \in Whitespace }
             n == IF ends = {} THEN Len(text)
                  ELSE (CHOOSE i \in ends : \A j \in ends : i <= j) - 1 IN
         <<SubSeq(text, 1, n)>>
             \o split_whitespace(SubSeq(text, n + 1, Len(text)))

\* iter.nth(k - 1).unwrap_or(""): the k-th piece, the empty text if there
\* are fewer.
NthOrEmpty(pieces, k) == IF Len(pieces) >= k THEN pieces[k] ELSE <<>>

RECURSIVE Concat(_)
\* The characters of a text as one string.
Concat(text) == IF text = <<>> THEN "" ELSE Head(text) \o Concat(Tail(text))

\* A parameter of the query as its key and, if it has an = sign, its value.
KeyValue(param) ==
    LET kv == splitn2(param, "=") IN
    IF Len(kv) = 1 THEN <<Concat(kv[1])>> ELSE <<Concat(kv[1]), kv[2]>>

\* The head of parse_auth_callback that looks for the query in every line.
query_of_AnyLine(request) ==
    LET path == NthOrEmpty(split_whitespace(
                    NthOrEmpty(split(request, "?"), 2)), 1)
        params == split(path, "&") IN
    [i \in 1..Len(params) |-> KeyValue(params[i])]

\* The head of parse_auth_callback: the second word of the first line is the
\* path, what follows its first ? is the query, & separates the parameters.
query_of(request) ==
    LET line == first_line(request)
        path == IF line.kind = "Some"
                THEN NthOrEmpty(split_whitespace(line.value), 2) ELSE <<>>
        query == NthOrEmpty(split(path, "?"), 2)
        params == split(query, "&") IN
    [i \in 1..Len(params) |-> KeyValue(params[i])]

\* parse_auth_callback on the text of a request.
parse_auth_request(request) == parse_auth_callback(query_of(request))

\* The parameters of the sample queries: the text as sent, the key, and the
\* value the text stands for (None when the parameter has no = sign).
ParamSamples ==
    { [text |-> <<"code", "=", "ABC123">>, key |-> "code",
       value |-> SomeValue(<<"ABC123">>)],
      [text |-> <<"code", "=", "ABC", "%", "2", "0", "123">>, key |-> "code",
       value |-> SomeValue(<<"ABC", " ", "123">>)],
      [text |-> <<"code", "=">>, key |-> "code", value |-> SomeValue(<<>>)],
      [text |-> <<"code">>, key |-> "code", value |-> NoValue],
      [text |-> <<"error", "=", "access_denied">>, key |-> "error",
       value |-> SomeValue(<<"access_denied">>)],
      [text |-> <<"error_description", "=", "User", "%", "2", "0", "denied">>,
       key |-> "error_description",
       value |-> SomeValue(<<"User", " ", "denied">>)],
      [text |-> <<"state", "=", "xyz">>, key |-> "state",
       value |-> SomeValue(<<"xyz">>)] }

RECURSIVE QueryText(_)
\* The parameters joined by &.
QueryText(params) ==
    IF params = <<>> THEN <<>>
    ELSE IF Len(params) = 1 THEN params[1].text
    ELSE params[1].text \o <<"&">> \o QueryText(Tail(params))

\* The request line of a callback with the parameters.
RequestLine(params) ==
    <<"GET", " ", "/">>
        \o (IF params = <<>> THEN <<>> ELSE <<"?">> \o QueryText(params))
        \o <<" ", "HTTP/1.1", "\r", "\n">>

\* What follows the request line: nothing, a header, or a header and a body
\* that hold the text of a query with a code.
RestSamples ==
    { <<>>,
      <<"Host:", " ", "localhost", "\r", "\n">>,
      <<"Referer:", " ", "/", "?", "code", "=", "LATER", " ", "x", "\r", "\n",
        "\r", "\n", "GET", " ", "/", "?", "code", "=", "BODY", " ", "x">> }

\* Requests that are not a request line with a path.
BrokenRequests ==
    { <<>>, <<"GET">>, <<"\r", "\n", "GET", " ", "/", "?", "code", "=", "X">> }

\* parse_auth_callback returns.
ParseAuthCallbackReturns ==
    /\ call.fn = "parse_auth_callback"
    /\ call.state = "called"
    /\ call' = [call EXCEPT !.state = "returned",
                            !.ret = parse_auth_request(call.request)]
    /\ UNCHANGED <<storage, now, auth, poll, pkce, runVars, syncVars>>

\* A text holds at most MaxLen characters.
MaxLen == 3

\* The characters of the sample texts: unreserved ones, reserved ones, the
\* space, + and %, and two characters outside ASCII.
Characters ==
    {"A", "z", "0", "-", "_", ".", "~", " ", "+", "%", "&", "=", "/", ":",
     "?", "U+233", "U+8364"}

\* The characters of the samples that are ASCII.
AsciiCharacters == Characters \ {"U+233", "U+8364"}

\* percent_encode and simple_url_decode of its result return.
RoundTripReturns ==
    /\ call.fn = "roundtrip_encode_decode"
    /\ call.state = "called"
    /\ LET encoded == percent_encode(call.original) IN
       call' = [call EXCEPT !.state = "returned", !.encoded = encoded,
                            !.decoded = simple_url_decode(encoded)]
    /\ UNCHANGED <<storage, now, auth, poll, pkce, runVars, syncVars>>

\* The two functions of the callback, called on sampled texts.
InitCallback ==
    /\ SyncIdle
    /\ storage = EmptyStorage /\ now = 0 /\ auth = AuthNew
    /\ poll = PollIdle /\ pkce = PkceIdle /\ RunIdle
    /\ \/ \E params \in SeqsUpTo(ParamSamples, MaxParams),
             rest \in RestSamples :
            call = [fn |-> "parse_auth_callback", state |-> "called",
                    params |-> params, rest |-> rest,
                    request |-> RequestLine(params) \o rest,
                    ret |-> NoValue]
       \/ \E request \in BrokenRequests :
            call = [fn |-> "parse_auth_callback", state |-> "called",
                    params |-> <<>>, rest |-> <<>>, request |-> request,
                    ret |-> NoValue]
       \/ \E s \in SeqsUpTo(Characters, MaxLen) :
            call = [fn |-> "roundtrip_encode_decode", state |-> "called",
                    original |-> s, encoded |-> <<>>, decoded |-> <<>>]

NextCallback ==
    \/ ParseAuthCallbackReturns
    \/ RoundTripReturns

SpecCallback == InitCallback /\ [][NextCallback]_vars

\* ------------------------------------------- the panes of the two views

\* A channel holds MaxChannelMessages messages, a chat as many when the client
\* starts; a page holds one message.
MaxChannelMessages == 2
\* The chats of the service change at most MaxChanges times while the client
\* runs.
MaxChanges == 1
\* Up is followed while the pane is scrolled by less than MaxScroll lines.
MaxScroll == 3

\* The chats of the user when the client starts, the most recent first.
ChatIds == <<"chatA", "chatB">>

\* The n-th message of a conversation (a chat or a channel). Its id names
\* the conversation it belongs to; the first message of every conversation
\* was written by u2, the others by the signed-in user u1.
Msg(conv, n) ==
    [id |-> [conv |-> conv, n |-> n],
     from |-> SomeValue(IF n = 1 THEN "u2" ELSE "u1"),
     content |-> <<"t">>]

\* The conversation a message belongs to.
ConvOf(msg) == msg.id.conv

\* The service: the chats in the order list_chats returns them, the number
\* of messages of each chat, and the changes since the start.
RemoteNew ==
    [chats |-> ChatIds,
     count |-> [c \in {"chatA", "chatB"} |-> MaxChannelMessages],
     changes |-> 0]

\* The first page of a conversation that holds count messages: the newest
\* message and the cursor of the page behind it.
FirstPage(conv, count) ==
    [kind |-> "Ok",
     messages |-> <<Msg(conv, count)>>,
     next_link |-> IF count > 1
                   THEN SomeValue([conv |-> conv, before |-> count])
                   ELSE NoValue]

\* GraphClient::get_messages_page on the cursor of a conversation: the
\* message before the ones already returned and the cursor behind it.
PageOf(next_link, ok) ==
    IF ok
    THEN [kind |-> "Ok",
          messages |-> <<Msg(next_link.conv, next_link.before - 1)>>,
          next_link |-> IF next_link.before - 1 > 1
                        THEN SomeValue([conv |-> next_link.conv,
                                        before |-> next_link.before - 1])
                        ELSE NoValue]
    ELSE [kind |-> "Err"]

\* GraphClient::get_messages of a chat.
ChatPage(remote, chat_id, ok) ==
    IF ok THEN FirstPage(chat_id, remote.count[chat_id]) ELSE [kind |-> "Err"]

\* GraphClient::get_channel_messages of a channel.
ChannelPage(channel_id, ok) ==
    IF ok THEN FirstPage(channel_id, MaxChannelMessages) ELSE [kind |-> "Err"]

\* App::new, with the service and the tasks in flight beside it; the text of
\* the status line is left out. The last fields are history: the operation
\* done last, and the id of the message the user has put the selection on.
ViewNew ==
    [screen |-> "Loading", view_mode |-> "Chats", dialog |-> "None",
     current_user |-> NoValue,
     active_panel |-> "ChatList", chats |-> <<>>, selected_chat |-> 0,
     messages |-> <<>>, messages_next_link |-> NoValue,
     known_message_ids |-> {}, scroll_offset |-> 0,
     selected_message |-> NoValue, input |-> <<>>, input_cursor |-> 0,
     reply_to_message_id |-> NoValue, editing_message_id |-> NoValue,
     loading_more_messages |-> FALSE,
     teams_panel |-> "TeamList", teams |-> <<>>, selected_team |-> 0,
     channels |-> <<>>, selected_channel |-> 0, channel_messages |-> <<>>,
     channel_messages_next_link |-> NoValue, channel_scroll_offset |-> 0,
     selected_channel_message |-> NoValue, channel_input |-> <<>>,
     channels_cache |-> EmptyMap, channel_message_cache |-> EmptyMap,
     channels_fg |-> FALSE, channel_messages_fg |-> FALSE,
     remote |-> RemoteNew, inbox |-> {},
     last |-> [op |-> "new"], chosen |-> NoValue]

\* The operation a handler has done is written down.
Did(a, op) == [a EXCEPT !.last = op]

\* A key or a result whose handling no property asks about.
Key == [op |-> "key"]

\* App::selected_chat_id.
selected_chat_id(a) ==
    IF a.selected_chat < Len(a.chats) THEN a.chats[a.selected_chat + 1]
    ELSE None

\* App::cancel_reply.
cancel_reply(a) == [a EXCEPT !.reply_to_message_id = NoValue]

\* App::cancel_edit.
cancel_edit(a) == [a EXCEPT !.editing_message_id = NoValue]

\* The keys that reach the handlers of the views: the main screen is shown
\* and no dialog is open.
KeysHandled == pager.screen = "Main" /\ pager.dialog = "None"

\* The guard of the global keys 1, 2 and p.
GlobalKeys ==
    /\ KeysHandled
    /\ pager.active_panel # "Input"
    /\ pager.teams_panel # "ChannelInput"

\* What the steps of the views leave alone.
ViewFrame ==
    UNCHANGED <<graph, bgtasks, boot, storage, now, auth, poll, call, pkce,
                syncVars>>

\* --- the Teams view

\* load_channel_messages_cached with the cursor of the page: the reply and
\* the edit are cancelled, the first page of the selected channel is cached
\* and displayed, and its cursor stored; a failure is reported.
load_channel_messages_first(a, ok) ==
    LET a0 == cancel_edit(cancel_reply([a EXCEPT !.channel_scroll_offset = 0]))
        team_id == selected_team_id(a0)
        channel_id == selected_channel_id(a0) IN
    IF team_id = None \/ channel_id = None THEN a0
    ELSE LET r == ChannelPage(channel_id, ok) IN
         IF r.kind = "Ok"
         THEN [a0 EXCEPT !.channel_message_cache =
                             Insert(@, channel_id, r.messages),
                         !.channel_messages = r.messages,
                         !.channel_messages_next_link = r.next_link]
         ELSE a0

\* load_channels_with_preload: the channels of the selected team are listed,
\* cached and displayed, the messages of the first are loaded inline and a
\* task is spawned for the messages of each other channel.
load_channels_first(a, okC, okM) ==
    LET team_id == selected_team_id(a) IN
    IF team_id = None THEN a
    ELSE IF ~okC THEN a
    ELSE LET chs == ServerChannels(team_id, 0)
             a1 == [a EXCEPT !.channels_cache = Insert(@, team_id, chs),
                             !.channels = chs,
                             !.selected_channel = 0,
                             !.channel_scroll_offset = 0] IN
         IF a1.channels # <<>>
         THEN LET a2 == load_channel_messages_first(a1, okM) IN
              [a2 EXCEPT !.inbox = @ \cup spawn_channel_messages_preload(a2)]
         ELSE a1

\* load_teams_with_preload: the teams are listed, the channels of the first
\* are loaded and a task is spawned for the channels of every team.
load_teams_first(a, okT, okC, okM) ==
    IF ~okT THEN a
    ELSE LET a1 == [a EXCEPT !.teams = TeamIds]
             a2 == IF a1.teams # <<>>
                   THEN load_channels_first([a1 EXCEPT !.selected_team = 0],
                                            okC, okM)
                   ELSE a1 IN
         [a2 EXCEPT !.inbox = @ \cup spawn_channels_preload(a2)]

\* load_older_channel_messages on the cursor of a conversation: the page of
\* the stored cursor is prepended and the cursor of that page stored.
load_older_channel_page(a, ok) ==
    IF a.channel_messages_next_link.kind = "Some"
    THEN LET next_link == a.channel_messages_next_link.value
             r == PageOf(next_link, ok) IN
         IF r.kind = "Ok"
         THEN Did(prepend_older_channel_messages(
                      [a EXCEPT !.channel_messages_next_link = r.next_link],
                      r.messages),
                  [op |-> "load_older_channel_messages",
                   cursor |-> next_link,
                   channel |-> selected_channel_id(a),
                   displayed |-> a.channel_messages])
         ELSE a
    ELSE a

\* run_app: get_me, list_chats and the messages of the first chat, before the
\* loop; a failure of the first two ends the program on the error screen.
Startup ==
    /\ pager.screen = "Loading"
    /\ \E okMe \in BOOLEAN, okChats \in BOOLEAN, okM \in BOOLEAN :
         LET a == pager IN
         pager' =
           IF ~okMe \/ ~okChats THEN [a EXCEPT !.screen = "Error"]
           ELSE LET a1 == [a EXCEPT !.current_user = SomeValue("u1"),
                                    !.chats = a.remote.chats,
                                    !.screen = "Main"]
                    chat_id == selected_chat_id(a1)
                    r == IF chat_id = None THEN [kind |-> "Err"]
                         ELSE ChatPage(a1.remote, chat_id, okM) IN
                IF r.kind = "Ok"
                THEN detect_new_messages(
                         [a1 EXCEPT !.messages = r.messages,
                                    !.messages_next_link = r.next_link]).app
                ELSE a1
    /\ ViewFrame

\* Key 2: the teams are loaded if none is known, and the Teams view shown.
KeyTwo ==
    /\ GlobalKeys
    /\ \E okT \in BOOLEAN, okC \in BOOLEAN, okM \in BOOLEAN :
         LET a == IF pager.teams = <<>>
                  THEN load_teams_first(pager, okT, okC, okM)
                  ELSE pager IN
         pager' = Did([a EXCEPT !.view_mode = "Teams"], Key)
    /\ ViewFrame

\* Key 1: the Chats view is shown.
KeyOne ==
    /\ GlobalKeys
    /\ pager.view_mode = "Teams"
    /\ pager' = Did([pager EXCEPT !.view_mode = "Chats"], Key)
    /\ ViewFrame

\* The keys of the Teams view reach handle_teams_keys.
TeamsKeys == KeysHandled /\ pager.view_mode = "Teams"

\* Tab and BackTab in a panel of the Teams view.
TeamsTab ==
    /\ TeamsKeys
    /\ \E back \in BOOLEAN :
         pager' = Did(IF back THEN prev_teams_panel(pager)
                      ELSE next_teams_panel(pager), Key)
    /\ ViewFrame

\* Up, k, Down and j in the list of teams.
TeamListMove ==
    /\ TeamsKeys
    /\ pager.teams_panel = "TeamList"
    /\ \E down \in BOOLEAN :
         pager' = Did(show_cached_channels_for_selected_team(
                          IF down THEN select_next_team(pager)
                          ELSE select_prev_team(pager)),
                      Key)
    /\ ViewFrame

\* Enter in the list of teams.
TeamListEnter ==
    /\ TeamsKeys
    /\ pager.teams_panel = "TeamList"
    /\ \E okC \in BOOLEAN, okM \in BOOLEAN :
         LET a == load_channels_first(
                      show_cached_channels_for_selected_team(pager), okC, okM) IN
         pager' = Did(IF a.channels # <<>>
                      THEN [a EXCEPT !.teams_panel = "ChannelList"] ELSE a,
                      Key)
    /\ ViewFrame

\* Up, k, Down and j in the list of channels.
ChannelListMove ==
    /\ TeamsKeys
    /\ pager.teams_panel = "ChannelList"
    /\ \E down \in BOOLEAN :
         pager' = Did(show_cached_messages_for_selected_channel(
                          IF down THEN select_next_channel(pager)
                          ELSE select_prev_channel(pager)),
                      Key)
    /\ ViewFrame

\* Enter in the list of channels.
ChannelListEnter ==
    /\ TeamsKeys
    /\ pager.teams_panel = "ChannelList"
    /\ \E ok \in BOOLEAN :
         pager' = Did([load_channel_messages_first(
                           show_cached_messages_for_selected_channel(pager), ok)
                         EXCEPT !.teams_panel = "ChannelMessages"],
                      Key)
    /\ ViewFrame

\* Esc in the list of channels.
ChannelListEsc ==
    /\ TeamsKeys
    /\ pager.teams_panel = "ChannelList"
    /\ pager' = Did([pager EXCEPT !.teams_panel = "TeamList"],
                    Key)
    /\ ViewFrame

\* Up or k in the messages of the channel, no message selected: the pane
\* scrolls and, scrolled and with a cursor stored, loads the older page.
ChannelMessagesUp ==
    /\ TeamsKeys
    /\ pager.teams_panel = "ChannelMessages"
    /\ pager.selected_channel_message.kind = "None"
    /\ pager.channel_scroll_offset < MaxScroll
    /\ \E ok \in BOOLEAN :
         LET a == Did([pager EXCEPT !.channel_scroll_offset =
                                        saturating_add(@, 3)],
                      Key) IN
         pager' = IF /\ a.channel_scroll_offset > 0
                     /\ a.channel_messages_next_link.kind = "Some"
                     /\ ~a.loading_more_messages
                  THEN load_older_channel_page(a, ok)
                  ELSE a
    /\ ViewFrame

\* r in the messages of the channel, no message selected.
ChannelMessagesReload ==
    /\ TeamsKeys
    /\ pager.teams_panel = "ChannelMessages"
    /\ pager.selected_channel_message.kind = "None"
    /\ \E ok \in BOOLEAN :
         pager' = Did(load_channel_messages_first(pager, ok),
                      Key)
    /\ ViewFrame

\* Esc in the messages of the channel, no message selected.
ChannelMessagesEsc ==
    /\ TeamsKeys
    /\ pager.teams_panel = "ChannelMessages"
    /\ pager.selected_channel_message.kind = "None"
    /\ pager' = Did([pager EXCEPT !.teams_panel = "ChannelList"],
                    Key)
    /\ ViewFrame

\* The loop receives the result of a task, or the task has failed and sends
\* nothing.
BgResultReceived ==
    /\ pager.screen = "Main"
    /\ \E t \in pager.inbox, ok \in BOOLEAN :
         LET a == [pager EXCEPT !.inbox = @ \ {t}] IN
         pager' =
           IF ~ok THEN Did(a, Key)
           ELSE IF t.kind = "Channels"
           THEN LET channels == ServerChannels(t.id, 0)
                    a1 == [a EXCEPT !.channels_cache =
                                        Insert(@, t.id, channels)] IN
                Did(IF selected_team_id(a1) = t.id
                    THEN LET a2 == [a1 EXCEPT !.channels = channels] IN
                         IF a2.selected_channel = 0
                         THEN show_cached_messages_for_selected_channel(a2)
                         ELSE a2
                    ELSE a1, Key)
           ELSE LET messages == ChannelPage(t.id, TRUE).messages
                    a1 == [a EXCEPT !.channel_message_cache =
                                        Insert(@, t.id, messages)] IN
                Did(IF selected_channel_id(a1) = t.id
                       /\ a1.view_mode = "Teams"
                    THEN [a1 EXCEPT !.channel_messages = messages]
                    ELSE a1, Key)
    /\ ViewFrame

\* The auto-refresh in the Teams view: the first page of the selected
\* channel replaces the displayed messages, the cursor and the cache entry.
AutoRefreshTeams ==
    /\ pager.screen = "Main"
    /\ pager.view_mode = "Teams"
    /\ \E ok \in BOOLEAN :
         LET a == pager
             team_id == selected_team_id(a)
             channel_id == selected_channel_id(a) IN
         pager' =
           IF team_id = None \/ channel_id = None \/ ~ok
           THEN Did(a, [op |-> "auto_refresh"])
           ELSE LET r == ChannelPage(channel_id, TRUE) IN
                Did([a EXCEPT !.channel_messages = r.messages,
                              !.channel_messages_next_link = r.next_link,
                              !.channel_message_cache =
                                  Insert(@, channel_id, r.messages)],
                    [op |-> "auto_refresh"])
    /\ ViewFrame

\* --- the Chats view

\* App::select_next_chat.
select_next_chat(a) ==
    IF a.chats # <<>>
    THEN [a EXCEPT !.selected_chat = Min(a.selected_chat + 1, Len(a.chats) - 1)]
    ELSE a

\* App::select_prev_chat.
select_prev_chat(a) ==
    [a EXCEPT !.selected_chat = saturating_sub(a.selected_chat, 1)]

\* App::next_panel.
next_panel(a) ==
    [a EXCEPT !.active_panel =
        CASE a.active_panel = "ChatList" -> "Messages"
          [] a.active_panel = "Messages" -> "Input"
          [] OTHER -> "ChatList"]

\* App::prev_panel.
prev_panel(a) ==
    [a EXCEPT !.active_panel =
        CASE a.active_panel = "ChatList" -> "Input"
          [] a.active_panel = "Messages" -> "ChatList"
          [] OTHER -> "Messages"]

\* App::selected_message_id.
selected_message_id(a) ==
    LET msg == message_at(a.messages, a.selected_message) IN
    IF msg.kind = "Some" THEN SomeValue(msg.value.id) ELSE NoValue

\* App::is_own_selected_message.
is_own_selected_message(a) ==
    LET msg == message_at(a.messages, a.selected_message) IN
    /\ msg.kind = "Some"
    /\ msg.value.from.kind = "Some"
    /\ msg.value.from.value = current_user_id(a)

\* App::select_message_up: every message of the model is a user message, so
\* the indices of the user messages are those of the list.
select_message_up(a) ==
    IF a.messages = <<>> THEN a
    ELSE IF a.selected_message.kind = "None"
    THEN [a EXCEPT !.selected_message = SomeValue(Len(a.messages) - 1)]
    ELSE LET cur == a.selected_message.value IN
         IF cur < Len(a.messages) /\ cur > 0
         THEN [a EXCEPT !.selected_message = SomeValue(cur - 1)]
         ELSE a

\* App::select_message_down.
select_message_down(a) ==
    IF a.messages = <<>> \/ a.selected_message.kind = "None" THEN a
    ELSE LET cur == a.selected_message.value IN
         IF cur < Len(a.messages)
         THEN IF cur + 1 < Len(a.messages)
              THEN [a EXCEPT !.selected_message = SomeValue(cur + 1)]
              ELSE [a EXCEPT !.selected_message = NoValue]
         ELSE a

\* App::start_reply.
start_reply(a) ==
    LET msg == message_at(a.messages, a.selected_message) IN
    IF msg.kind = "Some"
    THEN [a EXCEPT !.reply_to_message_id = SomeValue(msg.value.id),
                   !.selected_message = NoValue,
                   !.active_panel = "Input"]
    ELSE a

\* load_messages: the scroll, the selection, the reply and the edit are
\* reset; the first page of the selected chat replaces the displayed
\* messages and the cursor; a failure is reported and leaves both.
load_messages(a, ok) ==
    LET a0 == cancel_edit(cancel_reply([a EXCEPT !.scroll_offset = 0,
                                                 !.selected_message = NoValue]))
        chat_id == selected_chat_id(a0) IN
    IF chat_id = None THEN a0
    ELSE LET r == ChatPage(a0.remote, chat_id, ok) IN
         IF r.kind = "Ok"
         THEN detect_new_messages(
                  [a0 EXCEPT !.messages = r.messages,
                             !.messages_next_link = r.next_link]).app
         ELSE a0

\* load_older_messages on the cursor of a conversation.
load_older_page(a, ok) ==
    IF a.messages_next_link.kind = "Some"
    THEN LET next_link == a.messages_next_link.value
             r == PageOf(next_link, ok) IN
         IF r.kind = "Ok"
         THEN prepend_older_messages(
                  [a EXCEPT !.messages_next_link = r.next_link], r.messages)
         ELSE a
    ELSE a

\* refresh_all: the list of chats is replaced and the messages loaded.
refresh_all(a, okChats, okM) ==
    IF okChats
    THEN load_messages([a EXCEPT !.chats = a.remote.chats], okM)
    ELSE a

\* send_message: the text goes to the selected chat.
send_message(a, ok, okM) ==
    LET chat_id == selected_chat_id(a) IN
    IF chat_id = None THEN a
    ELSE Did(IF ok THEN load_messages(a, okM)
             ELSE [a EXCEPT !.dialog = "Error"],
             [op |-> "send_message", chat_id |-> chat_id])

\* send_reply: the reply to reply_to_id goes to the selected chat.
send_reply(a, reply_to_id, ok, okM) ==
    LET chat_id == selected_chat_id(a) IN
    IF chat_id = None THEN a
    ELSE Did(IF ok THEN load_messages(cancel_reply(a), okM)
             ELSE [a EXCEPT !.dialog = "Error"],
             [op |-> "send_reply", chat_id |-> chat_id,
              reply_to_id |-> reply_to_id])

\* edit_message: the new text of message_id goes to the selected chat.
edit_message(a, message_id, ok, okM) ==
    LET chat_id == selected_chat_id(a) IN
    IF chat_id = None THEN a
    ELSE Did(IF ok THEN load_messages(cancel_edit(a), okM)
             ELSE [a EXCEPT !.dialog = "Error"],
             [op |-> "edit_message", chat_id |-> chat_id,
              message_id |-> message_id])

\* delete_message: the selected message of the selected chat is deleted.
delete_message(a, ok, okM) ==
    LET chat_id == selected_chat_id(a)
        msg_id == selected_message_id(a) IN
    IF chat_id = None \/ msg_id.kind = "None" THEN a
    ELSE Did(IF ok
             THEN load_messages([a EXCEPT !.selected_message = NoValue], okM)
             ELSE [a EXCEPT !.dialog = "Error"],
             [op |-> "delete_message", chat_id |-> chat_id,
              message_id |-> msg_id, chosen |-> a.chosen])

\* The user has put the selection where it is now: the id it designates is
\* remembered.
Choose(a) == [a EXCEPT !.chosen = selected_message_id(a)]

\* A selection that was cleared is forgotten.
Forget(a) ==
    IF a.selected_message.kind = "None" THEN [a EXCEPT !.chosen = NoValue]
    ELSE a

\* The keys of the Chats view reach handle_chats_keys.
ChatsKeys == KeysHandled /\ pager.view_mode = "Chats"

\* Tab and BackTab in a panel of the Chats view.
ChatsTab ==
    /\ ChatsKeys
    /\ \E back \in BOOLEAN :
         pager' = Did(IF back THEN prev_panel(pager) ELSE next_panel(pager),
                      Key)
    /\ ViewFrame

\* Up, k, Down and j in the list of chats: the messages are loaded when the
\* index has changed.
ChatListMove ==
    /\ ChatsKeys
    /\ pager.active_panel = "ChatList"
    /\ \E down \in BOOLEAN, ok \in BOOLEAN :
         LET prev == pager.selected_chat
             a == IF down THEN select_next_chat(pager)
                  ELSE select_prev_chat(pager) IN
         pager' = IF prev # a.selected_chat
                  THEN Did(Forget(load_messages(a, ok)),
                           [op |-> "select_chat"])
                  ELSE Did(a, Key)
    /\ ViewFrame

\* Enter in the list of chats.
ChatListEnter ==
    /\ ChatsKeys
    /\ pager.active_panel = "ChatList"
    /\ pager' = Did([pager EXCEPT !.active_panel = "Input"], Key)
    /\ ViewFrame

\* r in the list of chats.
ChatListRefresh ==
    /\ ChatsKeys
    /\ pager.active_panel = "ChatList"
    /\ \E okChats \in BOOLEAN, okM \in BOOLEAN :
         pager' = Did(Forget(refresh_all(pager, okChats, okM)),
                      [op |-> "refresh", replaced |-> okChats,
                       chat_id |-> selected_chat_id(pager)])
    /\ ViewFrame

\* Up or k in the messages: the selection moves up, or the pane scrolls and,
\* scrolled and with a cursor stored, loads the older page.
MessagesUp ==
    /\ ChatsKeys
    /\ pager.active_panel = "Messages"
    /\ pager.scroll_offset < MaxScroll
    /\ \E ok \in BOOLEAN :
         pager' =
           IF pager.selected_message.kind = "Some"
           THEN Did(Choose(select_message_up(pager)), Key)
           ELSE LET a == Did([pager EXCEPT !.scroll_offset =
                                               saturating_add(@, 3)], Key) IN
                IF /\ a.scroll_offset > 0
                   /\ a.messages_next_link.kind = "Some"
                   /\ ~a.loading_more_messages
                THEN load_older_page(a, ok)
                ELSE a
    /\ ViewFrame

\* Down or j in the messages.
MessagesDown ==
    /\ ChatsKeys
    /\ pager.active_panel = "Messages"
    /\ pager' =
         IF pager.selected_message.kind = "Some"
         THEN Did(Choose(select_message_down(pager)), Key)
         ELSE Did([pager EXCEPT !.scroll_offset = saturating_sub(@, 3)], Key)
    /\ ViewFrame

\* s in the messages: the selection mode is switched.
MessagesSelect ==
    /\ ChatsKeys
    /\ pager.active_panel = "Messages"
    /\ pager' =
         IF pager.selected_message.kind = "Some"
         THEN Did(Forget([pager EXCEPT !.selected_message = NoValue]), Key)
         ELSE Did(Choose(select_message_up(pager)), Key)
    /\ ViewFrame

\* r in the messages: the reply to the selected message begins, or the
\* messages are loaded anew.
MessagesReply ==
    /\ ChatsKeys
    /\ pager.active_panel = "Messages"
    /\ \E ok \in BOOLEAN :
         pager' =
           IF pager.selected_message.kind = "Some"
           THEN LET a == start_reply(pager) IN
                Did(Forget(a),
                    [op |-> "start_reply",
                     message_id |-> selected_message_id(pager),
                     chosen |-> pager.chosen])
           ELSE Did(load_messages(pager, ok), Key)
    /\ ViewFrame

\* d in the messages: the selected message, if the user's own, is deleted.
MessagesDelete ==
    /\ ChatsKeys
    /\ pager.active_panel = "Messages"
    /\ pager.selected_message.kind = "Some"
    /\ \E ok \in BOOLEAN, okM \in BOOLEAN :
         pager' = IF is_own_selected_message(pager)
                  THEN Forget(delete_message(Did(pager, Key), ok, okM))
                  ELSE Did(pager, Key)
    /\ ViewFrame

\* w in the messages: the edit of the selected message, if the user's own,
\* begins.
MessagesEdit ==
    /\ ChatsKeys
    /\ pager.active_panel = "Messages"
    /\ pager.selected_message.kind = "Some"
    /\ pager' =
         IF is_own_selected_message(pager)
         THEN LET a == start_edit(pager) IN
              Did(Forget(a),
                  [op |-> "start_edit",
                   message_id |-> selected_message_id(pager),
                   chosen |-> pager.chosen])
         ELSE Did(pager, Key)
    /\ ViewFrame

\* Esc in the messages.
MessagesEsc ==
    /\ ChatsKeys
    /\ pager.active_panel = "Messages"
    /\ pager' =
         IF pager.selected_message.kind = "Some"
         THEN Did(Forget([pager EXCEPT !.selected_message = NoValue]), Key)
         ELSE Did([pager EXCEPT !.active_panel = "ChatList"], Key)
    /\ ViewFrame

\* Esc in the input of the Chats view.
InputEsc ==
    /\ ChatsKeys
    /\ pager.active_panel = "Input"
    /\ pager' = Did([cancel_edit(cancel_reply(pager))
                       EXCEPT !.active_panel = "ChatList"], Key)
    /\ ViewFrame

\* A character typed into the empty input of the Chats view.
InputChar ==
    /\ ChatsKeys
    /\ pager.active_panel = "Input"
    /\ pager.input = <<>>
    /\ pager' = Did([pager EXCEPT !.input = <<"t">>, !.input_cursor = 1], Key)
    /\ ViewFrame

\* Enter in the input of the Chats view: the text, if any, is sent as the
\* edit, as the reply or as a message.
InputEnter ==
    /\ ChatsKeys
    /\ pager.active_panel = "Input"
    /\ \E ok \in BOOLEAN, okM \in BOOLEAN :
         LET msg == pager.input
             a == Did([pager EXCEPT !.input = <<>>, !.input_cursor = 0], Key) IN
         pager' =
           IF msg = <<>> THEN a
           ELSE IF a.editing_message_id.kind = "Some"
           THEN edit_message(a, a.editing_message_id.value, ok, okM)
           ELSE IF a.reply_to_message_id.kind = "Some"
           THEN send_reply(a, a.reply_to_message_id.value, ok, okM)
           ELSE send_message(a, ok, okM)
    /\ ViewFrame

\* Esc or Enter on the error dialog.
DialogClose ==
    /\ pager.screen = "Main"
    /\ pager.dialog = "Error"
    /\ pager' = Did([pager EXCEPT !.dialog = "None"], Key)
    /\ ViewFrame

\* The auto-refresh in the Chats view: the list of chats is replaced, and
\* the first page of the chat then selected replaces the displayed messages
\* and the cursor; a request that fails leaves what it would have replaced.
AutoRefreshChats ==
    /\ pager.screen = "Main"
    /\ pager.view_mode = "Chats"
    /\ \E okChats \in BOOLEAN, okM \in BOOLEAN :
         LET a == pager
             a1 == IF okChats THEN [a EXCEPT !.chats = a.remote.chats] ELSE a
             chat_id == selected_chat_id(a1)
             r == IF chat_id = None THEN [kind |-> "Err"]
                  ELSE ChatPage(a1.remote, chat_id, okM)
             a2 == IF r.kind = "Ok"
                   THEN detect_new_messages(
                            [a1 EXCEPT !.messages = r.messages,
                                       !.messages_next_link = r.next_link]).app
                   ELSE a1 IN
         pager' = Did(a2, [op |-> "auto_refresh", replaced |-> okChats,
                           chat_id |-> selected_chat_id(a),
                           messages |-> a.messages,
                           next_link |-> a.messages_next_link])
    /\ ViewFrame

\* A message arrives in a chat, which moves to the head of the list.
MessageArrives ==
    /\ pager.screen = "Main"
    /\ pager.remote.changes < MaxChanges
    /\ \E i \in 1..Len(pager.remote.chats) :
         LET c == pager.remote.chats[i] IN
         pager' = [pager EXCEPT
                     !.remote.changes = @ + 1,
                     !.remote.count[c] = @ + 1,
                     !.remote.chats =
                         <<c>> \o SelectSeq(@, LAMBDA x : x # c)]
    /\ ViewFrame

\* The user leaves a chat on another device: the chat is listed no more.
ChatLeft ==
    /\ pager.screen = "Main"
    /\ pager.remote.changes < MaxChanges
    /\ \E i \in 1..Len(pager.remote.chats) :
         LET c == pager.remote.chats[i] IN
         pager' = [pager EXCEPT
                     !.remote.changes = @ + 1,
                     !.remote.chats = SelectSeq(@, LAMBDA x : x # c)]
    /\ ViewFrame

\* --- the input of the Teams view

\* App::select_channel_message_up.
select_channel_message_up(a) ==
    IF a.channel_messages = <<>> THEN a
    ELSE IF a.selected_channel_message.kind = "None"
    THEN [a EXCEPT !.selected_channel_message =
                       SomeValue(Len(a.channel_messages) - 1)]
    ELSE LET cur == a.selected_channel_message.value IN
         IF cur < Len(a.channel_messages) /\ cur > 0
         THEN [a EXCEPT !.selected_channel_message = SomeValue(cur - 1)]
         ELSE a

\* App::start_channel_reply.
start_channel_reply(a) ==
    LET msg == message_at(a.channel_messages, a.selected_channel_message) IN
    IF msg.kind = "Some"
    THEN [a EXCEPT !.reply_to_message_id = SomeValue(msg.value.id),
                   !.selected_channel_message = NoValue,
                   !.teams_panel = "ChannelInput"]
    ELSE a

\* send_channel_message: the text goes to the selected channel.
send_channel_message(a, ok, okM) ==
    LET team_id == selected_team_id(a)
        channel_id == selected_channel_id(a) IN
    IF team_id = None \/ channel_id = None THEN a
    ELSE Did(IF ok THEN load_channel_messages_first(a, okM) ELSE a,
             [op |-> "send_channel_message", channel_id |-> channel_id])

\* send_channel_reply: the reply to reply_to_id goes to the selected
\* channel.
send_channel_reply(a, reply_to_id, ok, okM) ==
    LET team_id == selected_team_id(a)
        channel_id == selected_channel_id(a) IN
    IF team_id = None \/ channel_id = None THEN a
    ELSE Did(IF ok THEN load_channel_messages_first(cancel_reply(a), okM)
             ELSE [a EXCEPT !.dialog = "Error"],
             [op |-> "send_channel_reply", channel_id |-> channel_id,
              reply_to_id |-> reply_to_id])

\* s in the messages of the channel: the selection mode is switched.
ChannelMessagesSelect ==
    /\ TeamsKeys
    /\ pager.teams_panel = "ChannelMessages"
    /\ pager' =
         IF pager.selected_channel_message.kind = "Some"
         THEN Did([pager EXCEPT !.selected_channel_message = NoValue], Key)
         ELSE Did(select_channel_message_up(pager), Key)
    /\ ViewFrame

\* r in the messages of the channel, a message selected: the reply begins.
ChannelMessagesReply ==
    /\ TeamsKeys
    /\ pager.teams_panel = "ChannelMessages"
    /\ pager.selected_channel_message.kind = "Some"
    /\ pager' = Did(start_channel_reply(pager), Key)
    /\ ViewFrame

\* Esc in the input of the Teams view.
ChannelInputEsc ==
    /\ TeamsKeys
    /\ pager.teams_panel = "ChannelInput"
    /\ pager' = Did([cancel_edit(cancel_reply(pager))
                       EXCEPT !.teams_panel = "ChannelMessages"], Key)
    /\ ViewFrame

\* A character typed into the empty input of the Teams view.
ChannelInputChar ==
    /\ TeamsKeys
    /\ pager.teams_panel = "ChannelInput"
    /\ pager.channel_input = <<>>
    /\ pager' = Did([pager EXCEPT !.channel_input = <<"t">>], Key)
    /\ ViewFrame

\* Enter in the input of the Teams view: the text, if any, is refused as an
\* edit, or sent as the reply or as a message.
ChannelInputEnter ==
    /\ TeamsKeys
    /\ pager.teams_panel = "ChannelInput"
    /\ \E ok \in BOOLEAN, okM \in BOOLEAN :
         LET msg == pager.channel_input
             a == Did([pager EXCEPT !.channel_input = <<>>], Key) IN
         pager' =
           IF msg = <<>> THEN a
           ELSE IF a.editing_message_id.kind = "Some" THEN cancel_edit(a)
           ELSE IF a.reply_to_message_id.kind = "Some"
           THEN send_channel_reply(a, a.reply_to_message_id.value, ok, okM)
           ELSE send_channel_message(a, ok, okM)
    /\ ViewFrame

\* The client from App::new on.
InitView ==
    /\ SyncIdle
    /\ storage = EmptyStorage /\ now = 0 /\ auth = AuthNew
    /\ poll = PollIdle /\ call = NoCall /\ pkce = PkceIdle
    /\ graph = NoGraph /\ bgtasks = <<>> /\ boot = BootIdle
    /\ pager = ViewNew

NextTeams ==
    \/ Startup
    \/ KeyTwo
    \/ TeamsTab
    \/ TeamListMove
    \/ TeamListEnter
    \/ ChannelListMove
    \/ ChannelListEnter
    \/ ChannelListEsc
    \/ ChannelMessagesUp
    \/ ChannelMessagesReload
    \/ ChannelMessagesEsc
    \/ BgResultReceived
    \/ AutoRefreshTeams

SpecTeams == InitView /\ [][NextTeams]_vars

\* The list of chats, the pages of the selected chat and the refreshes.
NextChats ==
    \/ Startup
    \/ ChatsTab
    \/ ChatListMove
    \/ ChatListRefresh
    \/ MessagesUp
    \/ MessagesDown
    \/ MessagesEsc
    \/ AutoRefreshChats
    \/ MessageArrives
    \/ ChatLeft

SpecChats == InitView /\ [][NextChats]_vars

\* The selection of a message, what is done to it, and the refreshes.
NextSelect ==
    \/ Startup
    \/ ChatsTab
    \/ MessagesUp
    \/ MessagesDown
    \/ MessagesSelect
    \/ MessagesReply
    \/ MessagesDelete
    \/ MessagesEdit
    \/ MessagesEsc
    \/ InputEsc
    \/ DialogClose
    \/ AutoRefreshChats
    \/ MessageArrives

SpecSelect == InitView /\ [][NextSelect]_vars

\* The panels and the inputs of both views and the switch between them.
NextReply ==
    \/ Startup
    \/ KeyOne
    \/ KeyTwo
    \/ ChatsTab
    \/ ChatListMove
    \/ ChatListEnter
    \/ MessagesSelect
    \/ MessagesReply
    \/ InputChar
    \/ InputEnter
    \/ InputEsc
    \/ DialogClose
    \/ TeamsTab
    \/ ChannelMessagesSelect
    \/ ChannelMessagesReply
    \/ ChannelInputChar
    \/ ChannelInputEnter
    \/ ChannelInputEsc
    \/ BgResultReceived

SpecReply == InitView /\ [][NextReply]_vars

\* ------------------------------------------------------------------ claims

\* A step of the loop that takes result m from the channel.
Drains(m) == m \in bg_rx /\ bg_rx' = bg_rx \ {m}

\* Collection d is an older answer of the service than collection v, for the
\* same entity.
OlderChannels(d, v) ==
    /\ d # <<>> /\ Len(d) = Len(v)
    /\ \A i \in 1..Len(d) : d[i].id = v[i].id /\ d[i].rev < v[i].rev

OlderMessages(d, v) ==
    /\ d # <<>> /\ Len(d) = Len(v)
    /\ \A i \in 1..Len(d) : d[i].chan = v[i].chan /\ d[i].rev < v[i].rev

\* C1: a background result for the selected entity that is older than the
\* collection a foreground fetch put on screen (so its fetch was issued before
\* that foreground fetch completed) does not replace the visible collection.
C1_StaleBgNeverClobbersFg ==
    [][\A m \in bg_rx : Drains(m) =>
          /\ ( /\ m.kind = "Channels"
               /\ app.channels_fg
               /\ selected_team_id(app) = m.id
               /\ OlderChannels(m.data, app.channels) )
             => app'.channels = app.channels
          /\ ( /\ m.kind = "ChannelMessages"
               /\ app.channel_messages_fg
               /\ selected_channel_id(app) = m.id
               /\ OlderMessages(m.data, app.channel_messages) )
             => app'.channel_messages = app.channel_messages
      ]_vars

\* C2: the loop stores every background result in the cache under its entity
\* id; it puts the result on screen when, and only when, the entity is the
\* selected one (for channel messages: the selected channel, in the Teams
\* view); a result for an entity that is not selected leaves the visible
\* channels and channel messages unchanged.
C2_BgResultCachedAndShownOnlyIfSelected ==
    [][\A m \in bg_rx : Drains(m) =>
          IF m.kind = "Channels"
          THEN /\ m.id \in DOMAIN app'.channels_cache
               /\ app'.channels_cache[m.id] = m.data
               /\ selected_team_id(app) = m.id => app'.channels = m.data
               /\ selected_team_id(app) # m.id =>
                     /\ app'.channels = app.channels
                     /\ app'.channel_messages = app.channel_messages
          ELSE /\ m.id \in DOMAIN app'.channel_message_cache
               /\ app'.channel_message_cache[m.id] = m.data
               /\ (selected_channel_id(app) = m.id /\ app.view_mode = "Teams")
                     => app'.channel_messages = m.data
               /\ ~(selected_channel_id(app) = m.id /\ app.view_mode = "Teams")
                     => app'.channel_messages = app.channel_messages
               /\ app'.channels = app.channels
      ]_vars

\* C2 witness: the messages of channel c2 are cached and no longer in flight
\* while c1 is the selected channel of the Teams view, its own messages on
\* screen, and the team list has the focus it had when the preload was spawned.
C2_Witness ==
    /\ app.view_mode = "Teams"
    /\ app.teams_panel = "TeamList"
    /\ selected_channel_id(app) = "c1"
    /\ app.channel_messages = ServerMessages("c1", 0)
    /\ "c2" \in DOMAIN app.channel_message_cache
    /\ app.channel_message_cache["c2"] = ServerMessages("c2", 1)
    /\ \A t \in tasks \cup bg_rx : t.id # "c2"

\* ------------------------------------------------- claims on credentials

\* This step is a call of get_valid_token that returned.
GetValidTokenReturns ==
    /\ auth'.last.op = "get_valid_token"
    /\ auth'.last # auth.last \/ auth'.requests # auth.requests

\* The store holds token in one of its tiers, whole.
KeyringHolds(st, token) ==
    /\ st.at = token.access_token
    /\ st.rt = (IF token.refresh_token = None THEN "" ELSE token.refresh_token)
    /\ st.meta = <<token.expires_in, token.obtained_at>>

FileHolds(st, token) ==
    st.file = [kind |-> "file", json |-> to_json(token)]

Persisted(st, token) == KeyringHolds(st, token) \/ FileHolds(st, token)

\* C3: a failed refresh is not retried silently: once a refresh request has
\* failed, get_valid_token yields None, and no refresh cycle of the UI loop
\* sends another refresh request with that refresh token until a
\* re-authentication has stored a new credential.
C3_FailedRefreshNotRetried ==
    [][ GetValidTokenReturns =>
          /\ auth'.last.flow.kind = "Err" => auth'.last.result = OkNone
          /\ auth'.last.caller = "run_app" =>
                \A i \in 1..Len(auth'.last.sent) :
                    auth'.last.sent[i] \notin auth.refresh_failed ]_vars

\* Nothing is stored in either tier.
NothingStored(st) ==
    st.at = NoEntry /\ st.rt = NoEntry /\ st.meta = <<>> /\ st.file.kind = "absent"

C5_ExpiredIffPastMargin ==
    (call.fn = "is_expired" /\ call.state # "called") =>
        /\ call.state = "returned"
        /\ call.ret <=> (now >= call.token.obtained_at
                                + call.token.expires_in - SafetyMargin)

\* C5: is_expired returns true exactly when now >= obtained_at + m, where m
\* is expires_in - 60 for expires_in >= 60 and 0 below that, exactly at the
\* boundary, as long as obtained_at + m fits the unsigned width; beyond the
\* width a build with overflow checks panics and one without compares now
\* with the wrapped sum.
C5_ExpiredIffPastSaturatedMargin ==
    (call.fn = "is_expired" /\ call.state # "called") =>
        LET o == call.token.obtained_at
            e == call.token.expires_in
            threshold == o + (IF e >= SafetyMargin THEN e - SafetyMargin ELSE 0)
        IN
        IF threshold <= U64_MAX
        THEN /\ call.state = "returned"
             /\ call.ret <=> (now >= threshold)
             /\ now = threshold => call.ret
             /\ now + 1 = threshold => ~call.ret
        ELSE IF call.build = "debug"
        THEN call.state = "panicked"
        ELSE /\ call.state = "returned"
             /\ call.ret <=> (now >= threshold - (U64_MAX + 1))

\* is_expired returned false for a token of 30 seconds obtained at 100 when
\* the clock read 80.
C5_Witness ==
    /\ call.fn = "is_expired" /\ call.state = "returned"
    /\ call.token.expires_in = 30 /\ call.token.obtained_at = 100
    /\ now = 80
    /\ ~call.ret

\* C6: the tiers are never mixed for one write: a store that writes the
\* file leaves the three keyring entries as they were.
C6_TiersNeverMixed ==
    [][ storage'.file # storage.file =>
          /\ storage'.at = storage.at
          /\ storage'.rt = storage.rt
          /\ storage'.meta = storage.meta ]_vars

\* C7: load never propagates a storage failure: whatever the keyring and the
\* file do, load_cached_token gives get_valid_token a token or none, never
\* an error.
C7_LoadNeverFails ==
    auth.last.op = "get_valid_token" =>
        auth.last.loaded.kind # "Err" /\ auth.last.result.kind # "Err"

\* C8: every grant (refresh, PKCE code exchange, device-code poll) that
\* returns a token has stored that token before it returns, so the store
\* holds every token a caller is given; a grant that did not store the token
\* returns an error and its caller gets no token.
C8_StoredBeforeReturned ==
    auth.last.op \in {"get_valid_token", "authenticate_browser", "poll_for_token"} =>
        /\ auth.last.flow.kind = "Ok" => Persisted(storage, auth.last.flow.token)
        /\ auth.last.op = "get_valid_token" /\ auth.last.sent # <<>> =>
              /\ auth.last.flow.kind \in {"Ok", "Err"}
              /\ auth.last.result.kind = "Some" =>
                    auth.last.flow = Ok(auth.last.result.token)
        /\ auth.last.op # "get_valid_token" =>
              /\ auth.last.flow.kind \in {"Ok", "Err"}
              /\ auth.phase = "running" => auth.last.flow.kind = "Ok"

\* The device-code flow returned a token that the keyring did not take and
\* the file holds.
C8_Witness ==
    /\ auth.last.op = "poll_for_token"
    /\ auth.last.flow.kind = "Ok"
    /\ FileHolds(storage, auth.last.flow.token)
    /\ auth.phase = "running"

\* The name of the OAuth error of a response, if it is one.
ErrorOf(resp) == IF resp.kind = "error" THEN resp.error ELSE None

\* C9: every token request of poll_for_token comes one interval after the
\* call or after the answer before it, and five seconds more after a
\* slow_down; an answer authorization_pending or slow_down does not end the
\* call, and only such answers are followed by another request.
C9_PollingWaits ==
    /\ \A i \in 1..Len(poll.req_times) :
          /\ i > 1 => ErrorOf(poll.responses[i - 1])
                          \in {"authorization_pending", "slow_down"}
          /\ poll.req_times[i] =
                (IF i = 1 THEN poll.started ELSE poll.req_times[i - 1])
                + poll.interval
                + (IF i > 1 /\ ErrorOf(poll.responses[i - 1]) = "slow_down"
                   THEN SlowDownDelay ELSE 0)
    /\ ( /\ poll.responses # <<>>
         /\ ErrorOf(poll.responses[Len(poll.responses)])
                \in {"authorization_pending", "slow_down"} )
       => poll.pc \in {"sleep", "slow_down", "request"}
          /\ poll.result.kind = "Running"

\* Three requests were sent, the first answered authorization_pending and
\* the second slow_down.
C9_Witness ==
    /\ Len(poll.req_times) = 3
    /\ ErrorOf(poll.responses[1]) = "authorization_pending"
    /\ ErrorOf(poll.responses[2]) = "slow_down"

\* The answers so far are authorization_pending, authorization_pending and
\* a token.
PendingPendingToken ==
    /\ Len(poll.responses) = 3
    /\ ErrorOf(poll.responses[1]) = "authorization_pending"
    /\ ErrorOf(poll.responses[2]) = "authorization_pending"
    /\ poll.responses[3].kind = "token"

\* C10: when the token endpoint answers authorization_pending twice and
\* then a token, the device-code flow has sent exactly three requests, each
\* one interval after the step before it, and returns the token of the third
\* answer, which the store holds when it returns (it returns an error only
\* when the store refused the token).
C10_DeviceCodeEndToEnd ==
    PendingPendingToken =>
        /\ poll.pc = "done"
        /\ Len(poll.req_times) = 3
        /\ \A i \in 1..3 : poll.req_times[i] = poll.started + i * poll.interval
        /\ poll.result.kind \in {"Ok", "Err"}
        /\ poll.result.kind = "Ok" =>
              /\ poll.result.token =
                    with_timestamp(poll.responses[3].token, poll.req_times[3])
              /\ Persisted(storage, poll.result.token)
        /\ poll.result.kind = "Err" =>
              /\ poll.result.error = "store"
              /\ ~Persisted(storage,
                     with_timestamp(poll.responses[3].token, poll.req_times[3]))

\* The flow got pending, pending and a token, and returned that token.
C10_Witness ==
    /\ PendingPendingToken
    /\ poll.pc = "done"
    /\ poll.result.kind = "Ok"
    /\ now = poll.started + 3 * poll.interval

\* The store when poll_for_token was called is the store now: polling has
\* stored nothing.
NothingStoredByPoll ==
    \A i \in 1..Len(poll.responses) : poll.responses[i].kind # "token"

\* This step is a request of poll_for_token answered with resp.
PollAnswered(resp) ==
    /\ Len(poll'.responses) = Len(poll.responses) + 1
    /\ poll'.responses[Len(poll'.responses)] = resp

\* C11: in the device-code flow an answer naming expired_token ends the call
\* with the error "device code expired", and an answer naming any error but
\* authorization_pending and slow_down ends it with an authentication error
\* that carries the name; the answer is the last request of the call, and
\* the step that takes it leaves the store as it was.
C11_TerminalOAuthErrors ==
    /\ [](\A i \in 1..Len(poll.responses) :
            LET e == ErrorOf(poll.responses[i]) IN
            e \notin {None, "authorization_pending", "slow_down"} =>
                /\ i = Len(poll.responses)
                /\ Len(poll.req_times) = i
                /\ poll.pc = "done"
                /\ poll.result = (IF e = "expired_token"
                                  THEN Err("device_code_expired")
                                  ELSE AuthenticationError(e)))
    /\ [][ \A e \in {"expired_token", "access_denied", "invalid_grant"} :
             PollAnswered([kind |-> "error", error |-> e]) =>
                storage' = storage /\ poll'.pc = "done" ]_vars

\* The second request was answered expired_token after a first answer
\* authorization_pending, and the call has ended.
C11_Witness ==
    /\ Len(poll.responses) = 2
    /\ ErrorOf(poll.responses[1]) = "authorization_pending"
    /\ ErrorOf(poll.responses[2]) = "expired_token"
    /\ poll.pc = "done"
    /\ poll.result = Err("device_code_expired")

\* C12: a token request of poll_for_token that fails to be sent (or whose
\* body cannot be read) ends the call at once with that error: it is the
\* last request, and the step leaves the store as it was.
C12_TransportErrorEndsPolling ==
    /\ [](\A i \in 1..Len(poll.responses) :
            poll.responses[i].kind = "transport_error" =>
                /\ i = Len(poll.responses)
                /\ Len(poll.req_times) = i
                /\ poll.pc = "done"
                /\ poll.result = Err("send"))
    /\ [][ PollAnswered([kind |-> "transport_error"]) =>
             storage' = storage /\ poll'.pc = "done" ]_vars

\* The second request failed to be sent after a first answer slow_down, and
\* the call has ended with the error.
C12_Witness ==
    /\ Len(poll.responses) = 2
    /\ ErrorOf(poll.responses[1]) = "slow_down"
    /\ poll.responses[2].kind = "transport_error"
    /\ poll.pc = "done"
    /\ poll.result = Err("send")

\* The state of the PKCE flow that a place of authenticate_browser is in.
PkcePhase(p) ==
    CASE p.pc = "idle" -> "NotStarted"
      [] p.pc \in {"bind", "open"} -> "PreparingChallenge"
      [] p.pc \in {"accept", "read", "respond"} -> "AwaitingCallback"
      [] p.pc = "exchange" -> "ExchangingCode"
      [] p.pc = "done" -> IF p.result.kind = "Ok" THEN "Succeeded" ELSE "Error"

\* The moves between the states of the PKCE flow that keep their order.
PkcePhaseOrder ==
    { <<"NotStarted", "PreparingChallenge">>,
      <<"PreparingChallenge", "AwaitingCallback">>,
      <<"PreparingChallenge", "Error">>,
      <<"AwaitingCallback", "ExchangingCode">>,
      <<"AwaitingCallback", "Error">>,
      <<"ExchangingCode", "Succeeded">>,
      <<"ExchangingCode", "Error">> }

\* C13: the PKCE flow goes through PreparingChallenge, AwaitingCallback and
\* ExchangingCode in this order; when the authorization URL is handed over
\* the verifier and its challenge exist and the listener is bound; a token
\* request is sent only once the callback was read and gave a code, and it
\* carries that code, the verifier whose challenge is in the URL and the
\* redirect URI that is in the URL; a failed bind, a timeout or a callback
\* without a code ends in Error with no token request sent.
C13_PkceInOrder ==
    /\ [][ PkcePhase(pkce') # PkcePhase(pkce) =>
             <<PkcePhase(pkce), PkcePhase(pkce')>> \in PkcePhaseOrder ]_vars
    /\ [][ pkce'.handed # pkce.handed =>
             /\ pkce.code_verifier \in generate_code_verifier
             /\ pkce.code_challenge = compute_code_challenge(pkce.code_verifier)
             /\ pkce.listener.state = "bound"
             /\ pkce.token_requests = <<>>
             /\ Len(pkce'.handed) = 1
             /\ pkce'.handed[1].url.code_challenge = pkce.code_challenge
             /\ PkcePhase(pkce) = "PreparingChallenge" ]_vars
    /\ [][ pkce'.token_requests # pkce.token_requests =>
             /\ PkcePhase(pkce) = "ExchangingCode"
             /\ pkce.stream.state # "none" /\ pkce.stream.read
             /\ LET parsed == parse_auth_callback(pkce.stream.client.query)
                    req == pkce'.token_requests[1]
                    url == pkce.handed[1].url IN
                /\ Len(pkce'.token_requests) = 1
                /\ parsed.kind = "Ok"
                /\ req.code = parsed.code
                /\ url.code_challenge = compute_code_challenge(req.code_verifier)
                /\ url.redirect_uri = percent_encode(req.redirect_uri) ]_vars
    /\ []((pkce.pc = "done" /\ pkce.result.kind = "Err"
            /\ pkce.result.error \in {"bind", "timeout", "accept", "read",
                                      "denied"})
          => pkce.token_requests = <<>> /\ storage = EmptyStorage)

\* The flow has succeeded with the code a/b of a callback that sent it
\* escaped, and the token request carried the verifier and the redirect URI.
C13_Witness ==
    /\ pkce.pc = "done"
    /\ pkce.result.kind = "Ok"
    /\ Len(pkce.token_requests) = 1
    /\ pkce.token_requests[1].code = <<"a", "/", "b">>
    /\ pkce.token_requests[1].code_verifier = pkce.code_verifier
    /\ pkce.handed # <<>>

\* C14: once the callback connection was accepted and its request read, the
\* success page has been written to it and the connection closed by the time
\* capture_auth_code is over, whether the request held a code, an error or
\* neither.
C14_CallbackAlwaysAnswered ==
    (pkce.pc \in {"exchange", "done"} /\ pkce.stream.state # "none"
        /\ pkce.stream.read)
    => /\ Len(pkce.stream.responses) = 1
       /\ pkce.stream.responses[1].page = SuccessPage
       /\ pkce.stream.state = "closed"

\* C15: the callback wait takes one connection at most, the first of the
\* queue of a listener bound to the loopback address, and at most one
\* response is written; the wait is left without a connection only by the
\* timeout, five minutes after it began, with the timeout error and no
\* token request; the listener is closed when the wait is over, so that a
\* second connection is never accepted.
C15_OneCallbackConnection ==
    /\ [](/\ pkce.accepted <= 1
          /\ (pkce.accepted = 1) <=> (pkce.stream.state # "none")
          /\ pkce.listener.state # "none" =>
                pkce.listener.addr = LoopbackAddr
          /\ pkce.stream.state # "none" => Len(pkce.stream.responses) <= 1
          /\ pkce.pc \in {"exchange", "done"} =>
                pkce.listener.state # "bound"
          /\ pkce.result = Err("timeout") =>
                /\ pkce.accepted = 0
                /\ now - pkce.started >= CallbackTimeout
                /\ pkce.token_requests = <<>>)
    /\ [][ pkce'.accepted # pkce.accepted =>
             /\ pkce.accepted = 0
             /\ pkce'.stream.client = Head(pkce.backlog) ]_vars
    /\ [][ (pkce.pc = "accept" /\ pkce'.pc # "accept" /\ pkce.backlog = <<>>)
             => /\ now - pkce.started >= CallbackTimeout
                /\ pkce'.pc = "done"
                /\ pkce'.result = Err("timeout") ]_vars

\* The first connection was read and answered once, a second connection
\* came and was left in the queue, and the wait is over.
C15_Witness ==
    /\ pkce.pc \in {"exchange", "done"}
    /\ pkce.accepted = 1
    /\ pkce.backlog # <<>>
    /\ Len(pkce.stream.responses) = 1
    /\ pkce.listener.state = "closed"

\* The tasks this step has added to those in flight.
Spawned == tasks' \ tasks

\* C16 as stated: no background task is spawned for the channels of the
\* selected team nor for the messages of the selected channel.
C16_NoTaskForTheViewed ==
    [][ \A t \in Spawned :
          /\ ~(t.kind = "Channels" /\ t.id = selected_team_id(app'))
          /\ ~(t.kind = "ChannelMessages"
                 /\ t.id = selected_channel_id(app')) ]_vars

\* C16, amended: when the teams are loaded a task for the channels of every
\* team is in flight, the selected team included; when the channels of a
\* team are loaded a task for the messages of every channel but the
\* selected one is in flight, and none is spawned for the selected channel.
C16_PreloadFanOut ==
    [][ /\ ((app.teams = <<>> /\ app'.teams # <<>>)
              \/ \E t \in Spawned : t.kind = "Channels")
           => \A i \in 1..Len(app'.teams) :
                 [kind |-> "Channels", id |-> app'.teams[i]] \in tasks'
        /\ \A t \in Spawned :
             t.kind = "ChannelMessages" => t.id # selected_channel_id(app')
        /\ (\E t \in Spawned : t.kind = "ChannelMessages")
           => \A i \in 1..Len(app'.channels) :
                 app'.channels[i].id # selected_channel_id(app')
                 => [kind |-> "ChannelMessages", id |-> app'.channels[i].id]
                        \in tasks' ]_vars

\* The teams were loaded with the first team selected and its channels
\* shown: a task for its channels is in flight, and one for the messages of
\* the second channel, none for the first.
C16_Witness ==
    /\ app.teams # <<>>
    /\ selected_team_id(app) = "t1"
    /\ selected_channel_id(app) = "c1"
    /\ [kind |-> "Channels", id |-> "t1"] \in tasks
    /\ [kind |-> "ChannelMessages", id |-> "c2"] \in tasks
    /\ [kind |-> "ChannelMessages", id |-> "c1"] \notin tasks

\* The channels shown are those cached for the selected team, none if it
\* was never cached.
ShowsCachedChannels(a) ==
    a.channels = (IF selected_team_id(a) \in DOMAIN a.channels_cache
                  THEN a.channels_cache[selected_team_id(a)] ELSE <<>>)

\* The messages shown are those cached for the selected channel, none if it
\* was never cached.
ShowsCachedMessages(a) ==
    a.channel_messages =
        (IF selected_channel_id(a) \in DOMAIN a.channel_message_cache
         THEN a.channel_message_cache[selected_channel_id(a)] ELSE <<>>)

\* C17: a key that moves the team selection shows the cached channels of
\* the new team (none if never cached) and spawns a fetch of its channels;
\* a key that moves the channel selection shows the cached messages of the
\* new channel (none if never cached) and spawns a fetch of its messages.
C17_MoveShowsCacheThenFetches ==
    [][ /\ (KeyTeamUpDown /\ selected_team_id(app') # selected_team_id(app))
           => /\ ShowsCachedChannels(app')
              /\ [kind |-> "Channels", id |-> selected_team_id(app')]
                    \in Spawned
        /\ (KeyChannelUpDown
              /\ selected_channel_id(app') # selected_channel_id(app))
           => /\ ShowsCachedMessages(app')
              /\ [kind |-> "ChannelMessages", id |-> selected_channel_id(app')]
                    \in Spawned ]_vars

\* C18: a move of the team selection to a team whose channels are cached
\* shows the list the cache holds for it, puts the channel selection on the
\* first channel, and sends no request: no task is spawned and neither cache
\* changes. After the moves from the first team to the second and back,
\* the list cached for the first team is shown again.
C18_CachedRevisitWithoutRequest ==
    /\ [][ (KeyTeamUpDown /\ selected_team_id(app') # selected_team_id(app)
              /\ selected_team_id(app') \in DOMAIN app.channels_cache)
           => /\ app'.channels = app.channels_cache[selected_team_id(app')]
              /\ app'.selected_channel = 0
              /\ tasks' = tasks /\ bg_rx' = bg_rx
              /\ app'.channels_cache = app.channels_cache
              /\ app'.channel_message_cache = app.channel_message_cache
       ]_vars
    /\ [][ (visits = <<"t2">> /\ visits' = <<"t2", "t1">>
              /\ {"t1", "t2"} \subseteq DOMAIN app.channels_cache)
           => /\ app.channels = app.channels_cache["t2"]
              /\ app'.channels = app.channels_cache["t1"]
              /\ app'.selected_channel = 0
              /\ tasks' = {} ]_vars

\* The selection went from the first team to the second and back, both
\* cached with lists of their own, and the channels of the first are shown.
C18_Witness ==
    /\ visits = <<"t2", "t1">>
    /\ app.selected_team = 0
    /\ app.teams_panel = "TeamList"
    /\ {"t1", "t2"} \subseteq DOMAIN app.channels_cache
    /\ app.channels_cache["t1"] # app.channels_cache["t2"]
    /\ app.channels = app.channels_cache["t1"]

\* A step of background task i.
TaskSteps(i) == i <= Len(bgtasks) /\ bgtasks'[i] # bgtasks[i]

\* C19: the client of a background task holds the token the UI client had
\* when the task was spawned, whatever set_token has done since, and the
\* task sends its request with that token; a step of a task changes nothing
\* of the UI loop (its client, the App, the store) and at most adds a
\* message to the channel.
C19_TaskKeepsItsTokenSnapshot ==
    /\ [](\A i \in 1..Len(bgtasks) :
            /\ bgtasks[i].bg_graph.access_token = graph.history[bgtasks[i].born]
            /\ bgtasks[i].bearer # None =>
                  bgtasks[i].bearer = graph.history[bgtasks[i].born])
    /\ [][ (\E i \in 1..Len(bgtasks') : TaskSteps(i))
           => /\ graph' = graph
              /\ app' = app
              /\ storage' = storage /\ auth' = auth
              /\ bg_rx \subseteq bg_rx' ]_vars
    /\ [][ graph'.access_token # graph.access_token => bgtasks' = bgtasks ]_vars

\* A task spawned under the first token has sent its request with it after
\* the UI client was given another token.
C19_Witness ==
    \E i \in 1..Len(bgtasks) :
        /\ bgtasks[i].born = 1
        /\ bgtasks[i].bearer = "at0"
        /\ graph.access_token # "at0"
        /\ Len(graph.history) > 1
        /\ bgtasks[i].pc = "done"

\* C20: the Main screen is on only when authenticate has returned a token
\* (from the cached-token check or from an authorization flow) and the
\* profile and the chat list were both fetched, in this order, with that
\* token; while authenticate has not returned a token main has not gone on,
\* and once main or run_app has ended on a failure the Main screen is never
\* entered.
C20_MainOnlyAfterTokenAndFetches ==
    /\ [](boot.screen = "Main" =>
            /\ auth.phase = "running"
            /\ \/ auth.last.op = "get_valid_token"
                  /\ auth.last.result.kind = "Some"
               \/ auth.last.op \in {"authenticate_browser", "poll_for_token"}
                  /\ auth.last.flow.kind = "Ok"
            /\ boot.token = AuthenticatedToken.access_token
            /\ boot.requests = <<[api |-> "get_me", bearer |-> boot.token],
                                 [api |-> "list_chats", bearer |-> boot.token]>>
            /\ boot.fetched = {"profile", "chats"})
    /\ [](auth.phase # "running" => boot = BootIdle)
    /\ [](boot.pc = "exited" => boot.screen # "Main")
    /\ [][ boot.pc = "exited" => boot' = boot ]_vars

\* The cached-token check found nothing, the authorization in the browser
\* gave a token, and the Main screen is on.
C20_Witness ==
    /\ boot.screen = "Main"
    /\ auth.last.op = "authenticate_browser"
    /\ boot.token = auth.last.flow.token.access_token

\* ------------------------------------------------ the messages of a chat

\* The messages are in the order of their creation, earliest first.
Ascending(messages) ==
    \A i, j \in 1..Len(messages) :
        i < j => messages[i].created_date_time <= messages[j].created_date_time

\* The call of fn has returned.
Returned(fn) == call.fn = fn /\ call.state = "returned"

\* The ids of the delta that the displayed messages did not have.
NewIds == IdsOf(call.delta) \ IdsOf(call.before.messages)

\* C21: a merge whose incoming set holds an id the existing sequence has not
\* adds that message (the length grows by one for each new id), returns
\* has_new = TRUE, and returns the sequence in the order of creation,
\* whatever the order of its input.
C21_MergeAddsNewAndSorts ==
    Returned("merge_delta_messages") /\ NewIds # {} =>
        /\ call.ret = TRUE
        /\ Len(call.after.messages)
             = Len(call.before.messages) + Cardinality(NewIds)
        /\ NewIds \subseteq IdsOf(call.after.messages)
        /\ Ascending(call.after.messages)

\* [m1 of 10:00, m3 of 10:02] merged with [m2 of 10:01] is [m1, m2, m3].
C21_Witness ==
    /\ Returned("merge_delta_messages")
    /\ call.before.messages
         = <<Message("m1", 0, "written"), Message("m3", 2, "written")>>
    /\ call.delta = <<Message("m2", 1, "edited")>>
    /\ call.ret = TRUE
    /\ call.after.messages
         = <<Message("m1", 0, "written"), Message("m2", 1, "edited"),
             Message("m3", 2, "written")>>

\* The last message of the delta with the id.
LastIncoming(id) ==
    LET found == { i \in 1..Len(call.delta) : call.delta[i].id = id } IN
    call.delta[CHOOSE i \in found : \A j \in found : j <= i]

\* Every message of the merged sequence whose id came with the delta is the
\* last incoming message of that id, and every other is as it was.
ContentReplaced ==
    \A i \in 1..Len(call.after.messages) :
        LET msg == call.after.messages[i] IN
        IF msg.id \in IdsOf(call.delta) THEN msg = LastIncoming(msg.id)
        ELSE \E j \in 1..Len(call.before.messages) :
                 call.before.messages[j] = msg

\* C22 as stated: an incoming message of an id that exists replaces that
\* message, leaves the length alone and does not set has_new, and after any
\* merge the known ids are the ids of the merged sequence.
C22_KnownIdsAfterAnyMerge ==
    Returned("merge_delta_messages") =>
        /\ ContentReplaced
        /\ NewIds = {} =>
             /\ call.ret = FALSE
             /\ Len(call.after.messages) = Len(call.before.messages)
        /\ call.after.known_message_ids = IdsOf(call.after.messages)

\* C22: an incoming message of an id that exists replaces that message,
\* leaves the length alone and does not set has_new (FALSE when every
\* incoming id exists); after a merge of a delta that is not empty the known
\* ids are the ids of the merged sequence.
C22_MergeUpdatesInPlace ==
    Returned("merge_delta_messages") =>
        /\ ContentReplaced
        /\ NewIds = {} =>
             /\ call.ret = FALSE
             /\ Len(call.after.messages) = Len(call.before.messages)
        /\ call.delta # <<>> =>
             call.after.known_message_ids = IdsOf(call.after.messages)

\* An edit of m1 came with the delta: m1 is replaced, nothing is new.
C22_Witness ==
    /\ Returned("merge_delta_messages")
    /\ call.before.messages
         = <<Message("m1", 0, "written"), Message("m2", 1, "written")>>
    /\ call.delta = <<Message("m1", 0, "edited")>>
    /\ call.ret = FALSE
    /\ call.after.messages
         = <<Message("m1", 0, "edited"), Message("m2", 1, "written")>>
    /\ call.after.known_message_ids = {"m1", "m2"}

\* C23: the merge of an empty incoming set changes nothing: has_new is
\* FALSE and the existing sequence is returned as it was, in the order it
\* had.
C23_EmptyMergeIsNoOp ==
    Returned("merge_delta_messages") /\ call.delta = <<>> =>
        /\ call.ret = FALSE
        /\ call.after = call.before

\* An empty delta merged into messages that are not in the order of their
\* creation.
C23_Witness ==
    /\ Returned("merge_delta_messages")
    /\ call.delta = <<>>
    /\ call.before.messages
         = <<Message("m3", 2, "written"), Message("m1", 0, "written")>>
    /\ call.after.messages = call.before.messages

\* C24: detect_new_messages makes the known ids the ids of the displayed
\* messages on every call; it returns FALSE when no id was known before,
\* and otherwise TRUE exactly when a displayed id was not known before.
C24_DetectNewMessages ==
    Returned("detect_new_messages") =>
        /\ call.after.known_message_ids = IdsOf(call.before.messages)
        /\ call.after.messages = call.before.messages
        /\ call.before.known_message_ids = {} => call.ret = FALSE
        /\ call.before.known_message_ids # {} =>
             (call.ret = TRUE <=>
                \E id \in IdsOf(call.before.messages) :
                    id \notin call.before.known_message_ids)

\* m1 and m2 were known, m2 and m3 are displayed: m3 is new and m1 is
\* forgotten.
C24_Witness ==
    /\ Returned("detect_new_messages")
    /\ call.before.known_message_ids = {"m1", "m2"}
    /\ IdsOf(call.before.messages) = {"m2", "m3"}
    /\ call.ret = TRUE
    /\ call.after.known_message_ids = {"m2", "m3"}

\* C26: prepend_older_messages and prepend_older_channel_messages leave the
\* older page followed by the messages displayed before, each in its order,
\* none dropped and none twice, and raise the scroll offset by twice the
\* number of prepended messages, saturating.
C26_PrependOlder ==
    /\ Returned("prepend_older_messages") =>
         /\ call.after.messages = call.delta \o call.before.messages
         /\ call.after.scroll_offset
              = saturating_add(call.before.scroll_offset, 2 * Len(call.delta))
         /\ call.after.scroll_offset <= U64_MAX
         /\ call.after.channel_messages = call.before.channel_messages
         /\ call.after.channel_scroll_offset
              = call.before.channel_scroll_offset
    /\ Returned("prepend_older_channel_messages") =>
         /\ call.after.channel_messages
              = call.delta \o call.before.channel_messages
         /\ call.after.channel_scroll_offset
              = saturating_add(call.before.channel_scroll_offset,
                               2 * Len(call.delta))
         /\ call.after.channel_scroll_offset <= U64_MAX
         /\ call.after.messages = call.before.messages
         /\ call.after.scroll_offset = call.before.scroll_offset

\* Two older messages prepended to two displayed ones at offset 5.
C26_Witness ==
    /\ Returned("prepend_older_messages")
    /\ Len(call.delta) = 2 /\ Len(call.before.messages) = 2
    /\ call.before.scroll_offset = 5
    /\ call.after.scroll_offset = 9
    /\ Len(call.after.messages) = 4

\* ------------------------------------------------- the pages of messages

\* The cursor stored for the pane.
StoredCursor(a, pane) ==
    IF pane = "chat" THEN a.messages_next_link
    ELSE a.channel_messages_next_link

\* A page has been requested in this step.
PageRequested == Len(pager'.requests) > Len(pager.requests)

\* The request made in this step.
LastRequest == pager'.requests[Len(pager'.requests)]

\* A page is requested only for the cursor that is stored.
RequestsTheStoredCursor ==
    [][ PageRequested =>
          /\ Len(pager'.requests) = Len(pager.requests) + 1
          /\ StoredCursor(pager, LastRequest.pane)
               = SomeValue(LastRequest.cursor) ]_vars

\* C25 as stated: a page is requested only for the stored cursor, the cursor
\* is replaced once it has been followed, and no cursor is requested twice.
C25_CursorNeverRequestedTwice ==
    /\ RequestsTheStoredCursor
    /\ [][ PageRequested =>
             StoredCursor(pager', LastRequest.pane)
               # SomeValue(LastRequest.cursor) ]_vars
    /\ [](\A i, j \in 1..Len(pager.requests) :
             (/\ i < j
              /\ pager.requests[i].pane = pager.requests[j].pane)
             => pager.requests[i].cursor # pager.requests[j].cursor)

\* C25, amended: a page is requested only for the stored cursor; a request
\* that returns a page replaces the stored cursor by the cursor returned
\* with the page (none when there is no further page) and a request that
\* fails leaves it; a cursor is requested again only after a request for it
\* failed or after the first page of the pane was loaded anew.
C25_CursorFollowedOnce ==
    /\ RequestsTheStoredCursor
    /\ [][ PageRequested =>
             StoredCursor(pager', LastRequest.pane)
               = (IF LastRequest.ok THEN PageNextLink(LastRequest.cursor)
                  ELSE SomeValue(LastRequest.cursor)) ]_vars
    /\ [](\A i, j \in 1..Len(pager.requests) :
             (/\ i < j
              /\ pager.requests[i].pane = pager.requests[j].pane
              /\ pager.requests[i].cursor = pager.requests[j].cursor)
             => \/ ~pager.requests[i].ok
                \/ pager.requests[i].load # pager.requests[j].load)

\* Both pages behind the first page of the chat have been loaded, one after
\* the other, and no cursor is left.
C25_Witness ==
    /\ Len(pager.requests) = 2
    /\ \A i \in 1..2 : /\ pager.requests[i].pane = "chat"
                       /\ pager.requests[i].cursor = i
                       /\ pager.requests[i].ok
    /\ pager.messages_next_link = NoValue
    /\ Len(pager.messages) = 3

\* ------------------------------------------- the SecretStore: load, clear

\* The keyring yields an access token that is not empty.
VaultYieldsAccessToken(st, renv) ==
    "at" \notin renv.unreadable /\ st.at \notin {NoEntry, ""}

\* Every field of the token is what the keyring holds, or the value that
\* stands for a keyring entry that is missing, empty or unreadable.
FromVault(token, st, renv) ==
    LET meta == IF "meta" \in renv.unreadable THEN <<>> ELSE st.meta IN
    /\ token.access_token = st.at
    /\ token.refresh_token
         = (IF "rt" \in renv.unreadable \/ st.rt \in {NoEntry, ""} THEN None
            ELSE st.rt)
    /\ token.expires_in = (IF meta = <<>> THEN DefaultExpiresIn ELSE meta[1])
    /\ token.obtained_at = (IF meta = <<>> THEN DefaultObtainedAt ELSE meta[2])

\* The token is the one written in the file.
FromFile(token, st) ==
    /\ st.file.kind = "file"
    /\ from_json(st.file.json) = Ok(token)

\* C27: load returns the credential of the keyring whenever the keyring
\* yields an access token that is not empty, and asks the file only when
\* that access token is missing, empty or unreadable; all the fields of the
\* credential returned come from one tier.
C27_LoadPrefersVault ==
    call.fn = "load_cached_token" =>
        /\ VaultYieldsAccessToken(storage, call.renv) =>
             /\ call.ret.kind = "Some"
             /\ FromVault(call.ret.token, storage, call.renv)
        /\ ~VaultYieldsAccessToken(storage, call.renv) =>
             /\ call.ret = load_token_file(storage, call.renv.fread)
             /\ call.ret.kind = "Some" => FromFile(call.ret.token, storage)
             /\ (call.renv.fread = "ok" /\ storage.file.kind = "file"
                   /\ storage.file.json # <<>>)
                => call.ret.kind = "Some"

\* Both tiers hold a token and the refresh token of the keyring cannot be
\* read: the token of the keyring is returned without a refresh token.
C27_Witness ==
    /\ call.fn = "load_cached_token"
    /\ storage.at = "at_keyring" /\ storage.rt = "rt_keyring"
    /\ storage.file.kind = "file" /\ storage.file.json # <<>>
    /\ call.renv.unreadable = {"rt"}
    /\ call.ret.kind = "Some"
    /\ call.ret.token.access_token = "at_keyring"
    /\ call.ret.token.refresh_token = None

\* Every deletion of the clear was done: the entries could be created, no
\* delete_password failed, the path of the file was known and the file was
\* removed.
AllDeleted(env) ==
    /\ ~env.entry_fails
    /\ env.delete_fails = {}
    /\ ~env.no_config_dir
    /\ ~env.remove_fails

\* The steps of a clear on the keyring, when its entries can be created.
KeyringSteps ==
    [i \in 1..Len(KeyringKeys) |-> <<"delete_password", KeyringKeys[i]>>]

\* C28: clear tries to delete each of the keyring entries (access token,
\* refresh token, metadata, legacy entry) and the file whatever deletion
\* fails, writes zeros over the file before it removes it, and always
\* reports success; when every deletion succeeds, a load that follows
\* returns no credential.
C28_ClearDeletesEverything ==
    /\ call.fn = "clear_stored_tokens" =>
         /\ call.ret.kind = "Ok"
         /\ ~call.env.entry_fails =>
              SubSeq(call.steps, 1, Len(KeyringKeys)) = KeyringSteps
         /\ (~call.env.no_config_dir /\ call.before.file.kind = "file") =>
              LET n == Len(call.steps) IN
              /\ n >= 2
              /\ call.steps[n] = <<"remove_file">>
              /\ call.steps[n - 1][1] = "write"
              /\ call.steps[n - 1][2].kind = "zeros"
              /\ ~call.env.metadata_fails =>
                   call.steps[n - 1][2].len = Len(call.before.file.json)
         /\ AllDeleted(call.env) =>
              /\ storage.at = NoEntry /\ storage.rt = NoEntry
              /\ storage.meta = <<>> /\ storage.legacy = NoEntry
              /\ storage.file.kind = "absent"
    /\ (/\ call.fn = "load_cached_token"
        /\ call.after.fn = "clear_stored_tokens"
        /\ AllDeleted(call.after.env))
       => /\ call.ret.kind # "Some"
          /\ call.renv.fread = "ok" => call.ret = OkNone

\* A store with a token in each tier and a legacy entry was cleared while
\* the deletion of the refresh token and the write of the zeros failed: the
\* other entries and the file are gone, and the load that follows returns
\* no credential.
C28_Witness ==
    /\ call.fn = "load_cached_token"
    /\ call.after.fn = "clear_stored_tokens"
    /\ call.after.before.at = "at_keyring"
    /\ call.after.before.legacy = "legacy_json"
    /\ call.after.before.file.kind = "file"
    /\ call.after.before.file.json # <<>>
    /\ call.after.env.delete_fails = {"rt"}
    /\ call.after.env.write_fails
    /\ Len(call.after.steps) = 6
    /\ storage.rt = "rt_keyring"
    /\ storage.at = NoEntry /\ storage.legacy = NoEntry
    /\ storage.file.kind = "absent"
    /\ call.ret = OkNone

\* ------------------------------------------- the request of the callback

\* The parameters of the request line with the key, in their order.
ParamsOf(key) ==
    SelectSeq(call.params, LAMBDA p : p.key = key)

\* The value the request line gives the key: that of the last parameter
\* with the key, None if there is none or if it has no = sign.
SentValue(key) ==
    IF ParamsOf(key) = <<>> THEN NoValue
    ELSE ParamsOf(key)[Len(ParamsOf(key))].value

\* C29: parse_auth_callback reads the first line of the request only: it
\* returns the decoded value of the code parameter of that line when there
\* is one (code=ABC123 gives ABC123); otherwise it fails, with a message
\* that holds the value of the error parameter when there is one
\* (access_denied), and it fails too when there is neither.
C29_ParseAuthCallback ==
    (call.fn = "parse_auth_callback" /\ call.state = "returned") =>
        /\ SentValue("code").kind = "Some" =>
             call.ret = [kind |-> "Ok", code |-> SentValue("code").value]
        /\ SentValue("code").kind = "None" =>
             /\ call.ret.kind = "Err"
             /\ SentValue("error").kind = "Some" =>
                  call.ret.name = SentValue("error").value
             /\ SentValue("error").kind = "None" =>
                  call.ret.name = <<"u", "n", "k", "n", "o", "w", "n">>

\* The request line holds an error and no code, a header and the body hold
\* the text of a query with a code: the call fails with access_denied.
C29_Witness ==
    /\ call.fn = "parse_auth_callback" /\ call.state = "returned"
    /\ Len(call.params) = 2
    /\ call.params[1].key = "error"
    /\ call.params[2].key = "error_description"
    /\ Len(call.rest) > 5
    /\ call.ret.kind = "Err"
    /\ call.ret.name = <<"access_denied">>
    /\ call.ret.description = <<"User", " ", "denied">>

\* The round trip of a text has returned.
RoundTripReturned ==
    call.fn = "roundtrip_encode_decode" /\ call.state = "returned"

\* Every element of the encoded text is an unreserved character of the
\* original, % or an upper-case hex digit, and each % is followed by two hex
\* digits.
EncodedForm ==
    /\ \A i \in 1..Len(call.encoded) :
         \/ call.encoded[i] \in {"A", "z", "0", "-", "_", ".", "~", "%"}
         \/ HexValue(call.encoded[i]) >= 0 /\ call.encoded[i] \notin
               {"a", "b", "c", "d", "e", "f"}
    /\ \A i \in 1..Len(call.encoded) :
         call.encoded[i] = "%" =>
            /\ i + 2 <= Len(call.encoded)
            /\ HexValue(call.encoded[i + 1]) >= 0
            /\ HexValue(call.encoded[i + 2]) >= 0
    /\ \A c \in {"z", "-", "_", ".", "~"} :
         Cardinality({ i \in 1..Len(call.encoded) : call.encoded[i] = c })
           = Cardinality({ i \in 1..Len(call.original) : call.original[i] = c })

\* C30 as stated: simple_url_decode(percent_encode(s)) = s for every text s,
\* and percent_encode keeps the unreserved characters and escapes every other
\* byte as % and two upper-case hex digits.
C30_RoundTrip ==
    RoundTripReturned => call.decoded = call.original /\ EncodedForm

\* C30, amended: simple_url_decode(percent_encode(s)) = s for every text s
\* of ASCII characters, reserved characters, spaces, +, % and unreserved
\* characters included; percent_encode keeps the unreserved characters and
\* escapes every other byte as % and two upper-case hex digits.
C30_RoundTripAscii ==
    RoundTripReturned =>
        /\ EncodedForm
        /\ (\A i \in 1..Len(call.original) :
                call.original[i] \in AsciiCharacters)
           => call.decoded = call.original

\* "+ %" comes back from "%2B%20%25".
C30_Witness ==
    /\ RoundTripReturned
    /\ call.original = <<"+", " ", "%">>
    /\ call.encoded = <<"%", "2", "B", "%", "2", "0", "%", "2", "5">>
    /\ call.decoded = call.original

\* ------------------------------------------------- edit and reply state

\* The message the selection designates before the call is one of the
\* signed-in user.
OwnMessageSelected ==
    /\ call.before.selected_message.kind = "Some"
    /\ call.before.selected_message.value < Len(call.before.messages)
    /\ call.before.current_user.kind = "Some"
    /\ call.before.messages[call.before.selected_message.value + 1].from
         = call.before.current_user

\* C31: start_edit enters edit mode (the id of the message recorded, its
\* text in the input with the cursor at its end, the selection cleared, the
\* input panel focused) only when the selected message was sent by the
\* current user; with no selection or a message of another sender nothing
\* changes; is_replying is FALSE whenever an edit is in progress.
C31_StartEditOwnMessageOnly ==
    Returned("start_edit") =>
        /\ OwnMessageSelected =>
             LET msg == call.before.messages[
                            call.before.selected_message.value + 1] IN
             call.after = [call.before EXCEPT
                             !.editing_message_id = SomeValue(msg.id),
                             !.input = msg.content,
                             !.input_cursor = Len(msg.content),
                             !.selected_message = NoValue,
                             !.active_panel = "Input"]
        /\ ~OwnMessageSelected => call.after = call.before
        /\ is_editing(call.after) => ~is_replying(call.after)

\* The user's own message m1 is selected while a reply to m2 is under way:
\* the edit of m1 begins and is_replying is FALSE.
C31_Witness ==
    /\ Returned("start_edit")
    /\ call.before.reply_to_message_id = SomeValue("m2")
    /\ call.before.editing_message_id = NoValue
    /\ call.after.editing_message_id = SomeValue("m1")
    /\ call.after.input = <<"m", "y">>
    /\ call.after.input_cursor = 2
    /\ call.after.reply_to_message_id = SomeValue("m2")
    /\ ~is_replying(call.after)

\* ------------------------------------------- a store followed by a load

\* The credential c of the store and the credential t of the load agree in
\* access token, refresh token, lifetime and time of issue.
SameCredential(c, t) ==
    /\ t.access_token = c.access_token
    /\ t.refresh_token = c.refresh_token
    /\ t.expires_in = c.expires_in
    /\ t.obtained_at = c.obtained_at

\* C32: after store(c) has returned success the next load returns a
\* credential with the access token, refresh token, expires_in and
\* obtained_at of c, whichever writes of keyring entries succeeded or failed
\* during the store and whatever the keyring and the file held before.
C32_StoreLoadRoundTrip ==
    (call.fn = "load_after_store" /\ call.ok) =>
        /\ call.ret.kind = "Some"
        /\ SameCredential(call.token, call.ret.token)

\* The round trip of a store whose keyring writes all succeed.
C32_RoundTripWhenKeyringTakesAll ==
    (call.fn = "load_after_store" /\ call.ok /\ call.wenv.kfail = "none") =>
        /\ call.ret.kind = "Some"
        /\ SameCredential(call.token, call.ret.token)

\* The store that fell back to the file after the write of "rt" failed is
\* followed by a load that gives the new access token with the refresh token
\* and the metadata of the earlier session.
C32_MixedCredentialLoaded ==
    /\ call.fn = "load_after_store" /\ call.ok
    /\ call.wenv.kfail = "rt"
    /\ call.ret.kind = "Some"
    /\ call.ret.token.access_token = call.token.access_token
    /\ call.ret.token.refresh_token = "rt_keyring"
    /\ call.ret.token.obtained_at = 7

\* ---------------------------------------------- the panes of the two views

\* The messages of a pane all belong to the conversation conv.
AllOf(messages, conv) ==
    \A i \in 1..Len(messages) : ConvOf(messages[i]) = conv

\* C33: in the Teams view the stored cursor of the channel pane belongs to
\* the channel whose messages are displayed, and the messages displayed for
\* the selected channel are never mixed with the older messages of another
\* channel, whatever the navigation, the cache, the background results and
\* the refreshes did before.
C33_ChannelCursorOfDisplayedChannel ==
    (pager.screen = "Main" /\ pager.view_mode = "Teams"
        /\ selected_channel_id(pager) # None) =>
        /\ AllOf(pager.channel_messages, selected_channel_id(pager))
        /\ (pager.channel_messages # <<>>
              /\ pager.channel_messages_next_link.kind = "Some") =>
             pager.channel_messages_next_link.value.conv
                 = selected_channel_id(pager)

\* The page of the cursor of another channel has been put before the
\* messages displayed for the selected channel.
C33_OtherChannelPrepended ==
    /\ pager.view_mode = "Teams"
    /\ pager.last.op = "load_older_channel_messages"
    /\ pager.last.displayed # <<>>
    /\ pager.last.cursor.conv # pager.last.channel
    /\ AllOf(pager.last.displayed, pager.last.channel)
    /\ ~AllOf(pager.channel_messages, pager.last.channel)

\* C34: once the handler of a move in the list of chats has finished, the
\* displayed messages and the stored cursor belong to the chat that is now
\* selected, also when the request for its messages has failed.
C34_MessagesOfSelectedChat ==
    (pager.last.op = "select_chat" /\ selected_chat_id(pager) # None) =>
        /\ AllOf(pager.messages, selected_chat_id(pager))
        /\ pager.messages_next_link.kind = "Some" =>
             pager.messages_next_link.value.conv = selected_chat_id(pager)

\* The move has selected chatB while the messages and the cursor of chatA
\* are displayed.
C34_OtherChatDisplayed ==
    /\ pager.last.op = "select_chat"
    /\ selected_chat_id(pager) = "chatB"
    /\ pager.messages # <<>>
    /\ AllOf(pager.messages, "chatA")
    /\ pager.messages_next_link.kind = "Some"
    /\ pager.messages_next_link.value.conv = "chatA"

\* The chat id is in the list.
Listed(chat_id, chats) == \E i \in 1..Len(chats) : chats[i] = chat_id

\* C35: a refresh (periodic or by the key r) that replaces the list of chats
\* keeps the chat selected: when the id selected before is in the new list
\* the selection designates it afterwards, and the selected index is within
\* the new list whenever that list is not empty.
C35_RefreshKeepsChatSelected ==
    (pager.last.op \in {"auto_refresh", "refresh"} /\ pager.last.replaced) =>
        /\ (pager.last.chat_id # None /\ Listed(pager.last.chat_id, pager.chats))
              => selected_chat_id(pager) = pager.last.chat_id
        /\ pager.chats # <<>> => pager.selected_chat < Len(pager.chats)

\* The refresh has put another chat at the selected index.
C35_OtherChatSelected ==
    /\ pager.last.op \in {"auto_refresh", "refresh"} /\ pager.last.replaced
    /\ pager.last.chat_id # None
    /\ Listed(pager.last.chat_id, pager.chats)
    /\ selected_chat_id(pager) # None
    /\ selected_chat_id(pager) # pager.last.chat_id

\* The refresh has left the selected index past the end of the list.
C35_IndexPastTheEnd ==
    /\ pager.last.op \in {"auto_refresh", "refresh"} /\ pager.last.replaced
    /\ pager.chats # <<>>
    /\ pager.selected_chat >= Len(pager.chats)

\* C38: while the same chat remains selected, an automatic refresh keeps
\* the older pages that were prepended to the displayed messages and does
\* not set the cursor back to the one of the first page.
C38_RefreshKeepsOlderPages ==
    (pager.last.op = "auto_refresh" /\ pager.last.chat_id # None
        /\ selected_chat_id(pager) = pager.last.chat_id) =>
        /\ IdsOf(pager.last.messages) \subseteq IdsOf(pager.messages)
        /\ Len(pager.last.messages) > 1 =>
             pager.messages_next_link = pager.last.next_link

\* The refresh of the chat that stays selected has removed the page that
\* was prepended and stored the cursor of the first page again.
C38_OlderPageDropped ==
    /\ pager.last.op = "auto_refresh"
    /\ pager.chats = ChatIds /\ pager.remote.changes = 0
    /\ selected_chat_id(pager) = pager.last.chat_id
    /\ Len(pager.last.messages) = 2
    /\ pager.last.next_link = NoValue
    /\ Len(pager.messages) = 1
    /\ pager.messages_next_link.kind = "Some"

\* C36: what is done to the selection (reply, edit, delete) is done to the
\* message the user has put the selection on, or to none, also after an
\* automatic refresh has replaced the displayed messages.
C36_ActsOnTheSelectedMessage ==
    (pager.last.op \in {"start_reply", "start_edit", "delete_message"}
        /\ pager.last.message_id.kind = "Some") =>
        pager.last.message_id = pager.last.chosen

\* The user has selected the message 2 of chatA and, after a refresh, the
\* key d has deleted the message 3.
C36_OtherMessageDeleted ==
    /\ pager.last.op = "delete_message"
    /\ pager.last.chosen = SomeValue([conv |-> "chatA", n |-> 2])
    /\ pager.last.message_id = SomeValue([conv |-> "chatA", n |-> 3])

\* C37: whenever a reply is sent, the id it replies to is the id of a
\* message of the chat or channel it is sent into, whatever panels, views
\* and selections came between the start of the reply and the send.
C37_ReplyWithinItsConversation ==
    /\ pager.last.op = "send_reply" =>
         pager.last.reply_to_id.conv = pager.last.chat_id
    /\ pager.last.op = "send_channel_reply" =>
         pager.last.reply_to_id.conv = pager.last.channel_id

\* The reply to a message of chatA has been sent into the channel c1.
C37_ChatReplySentToChannel ==
    /\ pager.last.op = "send_channel_reply"
    /\ pager.last.reply_to_id.conv = "chatA"
    /\ pager.last.channel_id = "c1"

\* The answer keeps poll_for_token in its loop.
KeepsPolling(resp) ==
    ErrorOf(resp) \in {"authorization_pending", "slow_down"}

\* C39: poll_for_token returns only on an answer that is neither
\* authorization_pending nor slow_down (a success response, another
\* non-success response or a failed request); it goes on polling, without a
\* limit of its own, for as long as every answer is one of those two; and it
\* returns once the server gives another answer.
C39_PollingEndsOnAnotherAnswer ==
    /\ [](poll.pc = "done" =>
            /\ poll.responses # <<>>
            /\ ~KeepsPolling(poll.responses[Len(poll.responses)]))
    /\ [](( /\ poll.responses # <<>>
            /\ \A i \in 1..Len(poll.responses) :
                  KeepsPolling(poll.responses[i]) )
          => /\ poll.pc \in {"sleep", "slow_down", "request"}
             /\ poll.result.kind = "Running"
             /\ Len(poll.req_times) = Len(poll.responses))
    /\ ((poll.pc = "sleep") ~> (poll.pc = "done"))

\* MaxPolls answers of authorization_pending and slow_down, the last one
\* slow_down, then another answer: poll_for_token has returned.
C39_Witness ==
    /\ poll.pc = "done"
    /\ Len(poll.responses) = MaxPolls + 1
    /\ \A i \in 1..MaxPolls : KeepsPolling(poll.responses[i])
    /\ ErrorOf(poll.responses[1]) = "authorization_pending"
    /\ ErrorOf(poll.responses[MaxPolls]) = "slow_down"
    /\ poll.result.kind \in {"Ok", "Err"}

\* The "meta" entry get_valid_token read: the empty text when the entry is
\* missing or cannot be read.
MetaRead ==
    IF "meta" \in call.renv.unreadable THEN <<>> ELSE call.before.meta

\* The entry is missing or is not the text of two numbers.
MetaUnparseable ==
    ~(Len(MetaRead) >= 2 /\ parses_u64(MetaRead[1]) /\ parses_u64(MetaRead[2]))

\* The entry is missing or neither of its fields is a number.
MetaWithoutNumber ==
    /\ Len(MetaRead) >= 1 => ~parses_u64(MetaRead[1])
    /\ Len(MetaRead) >= 2 => ~parses_u64(MetaRead[2])

\* get_valid_token loaded the credential with the defaults, did not return it
\* unless a refresh succeeded, and returned None without a refresh token.
TreatedAsExpired ==
    /\ call.out.loaded.kind = "Some"
    /\ call.out.loaded.token.expires_in = DefaultExpiresIn
    /\ call.out.loaded.token.obtained_at = DefaultObtainedAt
    /\ call.out.result.kind = "Some" =>
          /\ call.out.flow.kind = "Ok"
          /\ call.out.result.token = call.out.flow.token
          /\ call.out.result.token # call.out.loaded.token
    /\ call.out.loaded.token.refresh_token = None =>
          call.out.result.kind = "None"

\* C40 as stated: a keyring credential whose "meta" entry is missing or
\* unparseable is loaded with expires_in 3600 and obtained_at 0 and is
\* treated as expired by get_valid_token at every clock.
C40_DamagedMetaAlwaysExpired ==
    (call.fn = "get_valid_token" /\ MetaUnparseable) => TreatedAsExpired

\* C40: a keyring credential whose "meta" entry is missing or has no field
\* that is a number is loaded with expires_in 3600 and obtained_at 0; from
\* 3540 seconds after the epoch on, get_valid_token treats it as expired: it
\* returns it only as the new credential of a successful refresh, and None
\* when it has no refresh token.
C40_DefaultMetaExpiredAfterFirstHour ==
    ( /\ call.fn = "get_valid_token"
      /\ MetaWithoutNumber
      /\ now >= DefaultObtainedAt
                + saturating_sub(DefaultExpiresIn, SafetyMargin) )
    => TreatedAsExpired

\* A credential with a refresh token and a "meta" entry without a number,
\* the file holding another credential: get_valid_token refreshed it and
\* returned the new credential.
C40_Witness ==
    /\ call.fn = "get_valid_token"
    /\ call.renv.unreadable = {}
    /\ call.before.meta = <<-1, -1>>
    /\ call.before.rt = "rt_keyring"
    /\ call.before.file.kind = "file"
    /\ now = 3540
    /\ call.out.sent = <<"rt_keyring">>
    /\ call.out.result.kind = "Some"
    /\ call.out.result.token.access_token = "at1"

\* The "meta" entry holds a time but no lifetime: the credential is returned
\* as valid without a refresh.
C40_HalfParsedMetaReturnedValid ==
    /\ call.fn = "get_valid_token"
    /\ call.renv.unreadable = {}
    /\ call.before.meta = <<-1, 500>>
    /\ now = 4000
    /\ call.out.sent = <<>>
    /\ call.out.result = call.out.loaded
    /\ call.out.result.token.obtained_at = 500

====
